---- MODULE Spec2Model ----
(***************************************************************************)
(* Position-lifecycle engines of the crypto-trading backend:               *)
(*   - BacktestEngine   (backend/core/engine/backtest_engine.py)           *)
(*   - SimulationEngine (backend/core/engine/simulation_engine.py)         *)
(* together with the signal providers and risk policies they call.         *)
(*                                                                         *)
(* Arithmetic.  The program computes in floating point.  Here every amount *)
(* (price, capital, size, pnl) is an integer and a division is \div; the   *)
(* prices are multiples of 100 so that the 1% and 2% stop distances are    *)
(* exact.  Drawdown, a fraction, is kept in units of 1/DrawdownScale.      *)
(* Time is in minutes; bar k of a series carries the timestamp k.          *)
(***************************************************************************)
EXTENDS Integers, Sequences, FiniteSets, TLC

VARIABLES
    strategy,      \* strategy_name given to the engines' constructors
    risk_name,     \* risk_name given to the engines' constructors
    data,          \* the bar series: sequence of close prices, bar k at minute k
    bt,            \* the BacktestEngine instance (fields of self + loop position)
    sim,           \* the SimulationEngine instance (self.running + self.result)
    fed,           \* number of bars the feed has handed to process_update
    callbacks,     \* number of times on_update has been invoked
    lock,          \* asyncio.Lock: [locked, waiters, woken]
    task,          \* per caller: [pc, op, bar, id]
    arrived,       \* call ids in the order the calls requested the lock
    entered,       \* call ids in the order the calls entered their body
    provider_signals,  \* the directions of the signals of the N configured providers
    consensus,     \* what each consensus routine returned for provider_signals
    twin,          \* a second BacktestEngine instance, built with the same arguments
    held,          \* a risk policy object and the position it is asked about
    backtester,    \* the PerformanceAnalyzer (a Backtester) and the position of its run loop
    account,       \* the TradingSimulator's DummyAccount: balance, positions, trades
    service        \* the SimulationService: active_simulations, engines, callers

vars == <<strategy, risk_name, data, bt, sim, fed, callbacks,
          lock, task, arrived, entered, provider_signals, consensus, twin, held,
          backtester, account, service>>

-----------------------------------------------------------------------------
(* Bounds of the model *)

MaxBars == 4       \* longest bar series
MaxConcBars == 2   \* longest bar series fed by concurrent callers
MaxProviders == 6  \* most signal providers configured for one consensus
MaxCalls == 4      \* start/stop/process_update calls issued by concurrent callers
NTasks == 3        \* concurrent callers of one SimulationEngine

Prices == {9900, 10000, 10100, 10300}

InitialCapital == 1000000
DrawdownScale == 10000

\* (peak - capital) / peak in units of 1/DrawdownScale, rounded down; the
\* quotient is taken in two steps of a factor 100 to keep the products small
Drawdown(peak, capital) ==
    LET d == peak - capital
        r == d % peak
        a == (r * 100) \div peak
        b == (r * 100) % peak
        m == DrawdownScale \div 100
    IN  (d \div peak) * DrawdownScale + a * m + (b * m) \div peak

None == [type |-> "None"]

Abs(x) == IF x < 0 THEN -x ELSE x
Max(a, b) == IF a >= b THEN a ELSE b
Min(a, b) == IF a <= b THEN a ELSE b

Last(s) == s[Len(s)]

RECURSIVE SumPnl(_)
SumPnl(trades) ==
    IF trades = <<>> THEN 0
    ELSE trades[1].pnl + SumPnl(Tail(trades))

-----------------------------------------------------------------------------
(* Signal providers (core/strategies) *)

NeutralSignal ==
    [direction |-> "none", entry_price |-> 0, exit_signal |-> FALSE, volatility |-> 0]

\* close.diff(): NaN at the first row, which delta.where(cond, 0) turns into 0
Delta(window, k) == IF k <= 1 THEN 0 ELSE window[k] - window[k - 1]

RECURSIVE RollingGain(_, _, _)
RollingGain(window, k, n) ==
    IF n = 0 THEN 0
    ELSE Max(Delta(window, k), 0) + RollingGain(window, k - 1, n - 1)

RECURSIVE RollingLoss(_, _, _)
RollingLoss(window, k, n) ==
    IF n = 0 THEN 0
    ELSE Max(-Delta(window, k), 0) + RollingLoss(window, k - 1, n - 1)

\* the volatility estimate handed to the risk policy: size of the last move
calculate_volatility(window) ==
    IF Len(window) < 2 THEN 0 ELSE Abs(Delta(window, Len(window)))

RsiParams == [period |-> 2, oversold |-> 30, overbought |-> 70, exit_threshold |-> 50]

\* RSIStrategy.calculate_signals.  rsi = 100 - 100/(1 + gain/loss) = 100*gain/(gain+loss);
\* gain = loss = 0 makes rsi NaN, and every comparison with NaN is False.
RSI_calculate_signals(window) ==
    IF Len(window) < RsiParams.period THEN NeutralSignal
    ELSE
        LET gain == RollingGain(window, Len(window), RsiParams.period)
            loss == RollingLoss(window, Len(window), RsiParams.period)
            nan  == gain + loss = 0
            below(th) == ~nan /\ 100 * gain < th * (gain + loss)
            above(th) == ~nan /\ 100 * gain > th * (gain + loss)
            direction == IF below(RsiParams.oversold) THEN "long"
                         ELSE IF above(RsiParams.overbought) THEN "short"
                         ELSE "none"
        IN  [direction    |-> direction,
             entry_price  |-> Last(window),
             exit_signal  |-> direction = "none" /\ above(RsiParams.exit_threshold),
             volatility   |-> calculate_volatility(window)]

LevelParams == [long_below |-> 10000, short_above |-> 10300]

\* A provider that implements BaseStrategy.calculate_signals from the current bar
\* alone: long at or below long_below, short at or above short_above, and an exit
\* flag in between.
Level_calculate_signals(window) ==
    IF Len(window) < 1 THEN NeutralSignal
    ELSE
        LET close == Last(window)
            direction == IF close <= LevelParams.long_below THEN "long"
                         ELSE IF close >= LevelParams.short_above THEN "short"
                         ELSE "none"
        IN  [direction    |-> direction,
             entry_price  |-> close,
             exit_signal  |-> direction = "none",
             volatility   |-> calculate_volatility(window)]

Strategies == {"rsi", "level"}

\* get_strategy(name, params).calculate_signals(window)
calculate_signals(name, window) ==
    IF name = "rsi" THEN RSI_calculate_signals(window)
    ELSE Level_calculate_signals(window)

-----------------------------------------------------------------------------
(* Risk policies (core/risk_management) *)

RiskManagers == {"fixed", "atr", "basic"}

\* risk_per_trade and stop_loss_pct are percentages, max_holding_minutes minutes;
\* trailing_stop_pct = 0 stands for None
RiskParams(name) ==
    IF name = "fixed" THEN [risk_per_trade |-> 2, risk_reward_ratio |-> 2]
    ELSE IF name = "atr" THEN
        [risk_per_trade |-> 2, risk_reward_ratio |-> 2, atr_multiplier |-> 2]
    ELSE [risk_per_trade |-> 2, risk_reward_ratio |-> 2, stop_loss_pct |-> 2,
          max_holding_minutes |-> 2, trailing_stop_pct |-> 0]

Fixed_calculate_stop_loss(entry_price, position_type, volatility) ==
    LET stop_distance == IF volatility # 0 THEN volatility
                         ELSE entry_price \div 100
    IN  IF position_type = "long" THEN entry_price - stop_distance
        ELSE entry_price + stop_distance

ATR_calculate_stop_loss(entry_price, position_type, volatility) ==
    LET stop_distance == IF volatility # 0
                         THEN volatility * RiskParams("atr").atr_multiplier
                         ELSE entry_price \div 100
    IN  IF position_type = "long" THEN entry_price - stop_distance
        ELSE entry_price + stop_distance

Basic_calculate_stop_loss(entry_price, position_type, volatility) ==
    LET pct == RiskParams("basic").stop_loss_pct
    IN  IF position_type = "long" THEN (entry_price * (100 - pct)) \div 100
        ELSE (entry_price * (100 + pct)) \div 100

calculate_stop_loss(name, entry_price, position_type, volatility) ==
    IF name = "fixed" THEN Fixed_calculate_stop_loss(entry_price, position_type, volatility)
    ELSE IF name = "atr" THEN ATR_calculate_stop_loss(entry_price, position_type, volatility)
    ELSE Basic_calculate_stop_loss(entry_price, position_type, volatility)

\* faulty variant, for C25: the target is put on the side of the stop
calculate_take_profit_adverse(name, entry_price, position_type, stop_loss) ==
    LET stop_distance == Abs(entry_price - stop_loss)
        take_profit_distance == stop_distance * RiskParams(name).risk_reward_ratio
    IN  IF position_type = "long" THEN entry_price - take_profit_distance
        ELSE entry_price + take_profit_distance

\* the same body in FixedRiskManagement, ATRRiskManagement and BasicRiskManager
calculate_take_profit(name, entry_price, position_type, stop_loss) ==
    LET stop_distance == Abs(entry_price - stop_loss)
        take_profit_distance == stop_distance * RiskParams(name).risk_reward_ratio
    IN  IF position_type = "long" THEN entry_price + take_profit_distance
        ELSE entry_price - take_profit_distance

NoClose == [close |-> FALSE, reason |-> ""]
Close(reason) == [close |-> TRUE, reason |-> reason]

\* BaseRiskManagement.should_close_position (fixed, atr)
Base_should_close_position(position_type, entry_price, current_price, stop_loss, take_profit, unrealized_pnl, holding_time) ==
    IF position_type = "long" THEN
        IF current_price <= stop_loss THEN Close("stop_loss")
        ELSE IF current_price >= take_profit THEN Close("take_profit")
        ELSE NoClose
    ELSE
        IF current_price >= stop_loss THEN Close("stop_loss")
        ELSE IF current_price <= take_profit THEN Close("take_profit")
        ELSE NoClose

\* faulty variant, for C23: the stop and the target are tested before the
\* holding period
BasicRiskManager_should_close_position_hit_first(params, position_type, entry_price, current_price, stop_loss, take_profit, unrealized_pnl, holding_period) ==
    LET hit == Base_should_close_position(position_type, entry_price, current_price,
                                          stop_loss, take_profit, unrealized_pnl,
                                          holding_period)
    IN  IF hit.close THEN hit
        ELSE IF holding_period >= params.max_holding_minutes
        THEN Close("max_holding_period")
        ELSE NoClose

\* BasicRiskManager.should_close_position, of a manager built with params
BasicRiskManager_should_close_position(params, position_type, entry_price, current_price, stop_loss, take_profit, unrealized_pnl, holding_period) ==
    LET p == params
        hit == Base_should_close_position(position_type, entry_price, current_price,
                                          stop_loss, take_profit, unrealized_pnl,
                                          holding_period)
    IN  IF holding_period >= p.max_holding_minutes THEN Close("max_holding_period")
        ELSE IF hit.close THEN hit
        ELSE IF p.trailing_stop_pct # 0 THEN
            IF position_type = "long" THEN
                LET max_price == Max(entry_price, current_price)
                    trailing_stop == (max_price * (100 - p.trailing_stop_pct)) \div 100
                IN  IF current_price <= trailing_stop THEN Close("trailing_stop")
                    ELSE NoClose
            ELSE
                LET min_price == Min(entry_price, current_price)
                    trailing_stop == (min_price * (100 + p.trailing_stop_pct)) \div 100
                IN  IF current_price >= trailing_stop THEN Close("trailing_stop")
                    ELSE NoClose
        ELSE NoClose

\* BasicRiskManager.should_close_position of the manager the engines build
Basic_should_close_position(position_type, entry_price, current_price, stop_loss, take_profit, unrealized_pnl, holding_period) ==
    BasicRiskManager_should_close_position(RiskParams("basic"), position_type,
                                           entry_price, current_price, stop_loss,
                                           take_profit, unrealized_pnl, holding_period)

should_close_position(name, position_type, entry_price, current_price, stop_loss, take_profit, unrealized_pnl, holding_period) ==
    IF name = "basic"
    THEN Basic_should_close_position(position_type, entry_price, current_price,
                                     stop_loss, take_profit, unrealized_pnl,
                                     holding_period)
    ELSE Base_should_close_position(position_type, entry_price, current_price,
                                    stop_loss, take_profit, unrealized_pnl,
                                    holding_period)

\* FixedRiskManagement.validate_params; risk_per_trade in percent, 0.1 is 10
Fixed_validate_params(params) ==
    /\ 0 < params.risk_per_trade /\ params.risk_per_trade <= 10
    /\ params.risk_reward_ratio > 0

\* ATRRiskManagement.validate_params
ATR_validate_params(params) ==
    /\ 0 < params.risk_per_trade /\ params.risk_per_trade <= 10
    /\ params.atr_multiplier > 0
    /\ params.risk_reward_ratio > 0

\* BasicRiskManager.validate_params, on {**default_params, **params};
\* `0 < risk_per_trade < 1` is 0 < percent < 100
Basic_validate_params(params) ==
    /\ params.stop_loss_pct > 0
    /\ params.risk_reward_ratio > 0
    /\ params.max_holding_minutes > 0
    /\ params.trailing_stop_pct # 0 => params.trailing_stop_pct > 0
    /\ 0 < params.risk_per_trade /\ params.risk_per_trade < 100

\* get_risk_manager(name, params): TRUE when a policy object is returned, FALSE
\* when ValueError is raised
get_risk_manager(name, params) ==
    IF name \notin RiskManagers THEN FALSE
    ELSE IF name = "fixed" THEN Fixed_validate_params(params)
    ELSE IF name = "atr" THEN ATR_validate_params(params)
    ELSE Basic_validate_params(params)

\* stands for the None that adjust_stop_loss returns when it changes nothing
NoAdjust == -1

\* BaseRiskManagement.adjust_stop_loss (fixed)
Base_adjust_stop_loss(position_type, entry_price, current_price, current_stop_loss, unrealized_pnl) ==
    NoAdjust

\* ATRRiskManagement.adjust_stop_loss
ATR_adjust_stop_loss(position_type, entry_price, current_price, current_stop_loss, unrealized_pnl) ==
    IF unrealized_pnl <= 0 THEN NoAdjust
    ELSE IF position_type = "long" /\ current_price > entry_price
    THEN Max(entry_price, current_stop_loss)
    ELSE IF position_type = "short" /\ current_price < entry_price
    THEN Min(entry_price, current_stop_loss)
    ELSE NoAdjust

\* DynamicRiskManagement.__init__ defaults; trailing_stop_start_pct in percent
DynamicParams ==
    [stop_loss_atr_multiplier |-> 2, take_profit_atr_multiplier |-> 4,
     trailing_stop_start_pct |-> 2]

\* DynamicRiskManagement._calculate_atr: 1% of the price
Dynamic_calculate_atr(current_price) == current_price \div 100

\* DynamicRiskManagement.calculate_risk_params: (stop_loss, take_profit)
Dynamic_calculate_risk_params(entry_price, position_size) ==
    LET atr == Dynamic_calculate_atr(entry_price)
    IN  [stop_loss   |-> IF position_size > 0
                         THEN entry_price - atr * DynamicParams.stop_loss_atr_multiplier
                         ELSE entry_price + atr * DynamicParams.stop_loss_atr_multiplier,
         take_profit |-> IF position_size > 0
                         THEN entry_price + atr * DynamicParams.take_profit_atr_multiplier
                         ELSE entry_price - atr * DynamicParams.take_profit_atr_multiplier]

\* faulty variant, for C24: the new stop replaces the old one without max / min
Dynamic_update_risk_params_replace(current_price, position_data) ==
    LET entry_price == position_data.entry_price
        position_size == position_data.size
        profit == IF position_size > 0 THEN current_price - entry_price
                  ELSE entry_price - current_price
        atr == Dynamic_calculate_atr(current_price)
    IN  IF profit * 100 > DynamicParams.trailing_stop_start_pct * entry_price
        THEN [stop_loss   |-> IF position_size > 0
                              THEN current_price - atr * DynamicParams.stop_loss_atr_multiplier
                              ELSE current_price + atr * DynamicParams.stop_loss_atr_multiplier,
              take_profit |-> position_data.take_profit]
        ELSE [stop_loss   |-> position_data.stop_loss,
              take_profit |-> position_data.take_profit]

\* DynamicRiskManagement.update_risk_params: (stop_loss, take_profit);
\* profit_pct > trailing_stop_start is profit * 100 > percent * entry_price
Dynamic_update_risk_params(current_price, position_data) ==
    LET entry_price == position_data.entry_price
        original_stop_loss == position_data.stop_loss
        position_size == position_data.size
        profit == IF position_size > 0 THEN current_price - entry_price
                  ELSE entry_price - current_price
        atr == Dynamic_calculate_atr(current_price)
        new_stop_loss == IF position_size > 0
                         THEN current_price - atr * DynamicParams.stop_loss_atr_multiplier
                         ELSE current_price + atr * DynamicParams.stop_loss_atr_multiplier
    IN  IF profit * 100 > DynamicParams.trailing_stop_start_pct * entry_price
        THEN [stop_loss   |-> IF position_size > 0
                              THEN Max(original_stop_loss, new_stop_loss)
                              ELSE Min(original_stop_loss, new_stop_loss),
              take_profit |-> position_data.take_profit]
        ELSE [stop_loss   |-> original_stop_loss,
              take_profit |-> position_data.take_profit]

\* _calculate_position_size of both engines
calculate_position_size(name, current_capital, entry_price, stop_loss) ==
    LET risk_amount == (current_capital * RiskParams(name).risk_per_trade) \div 100
        stop_distance == Abs(entry_price - stop_loss)
    IN  IF stop_distance > 0 THEN risk_amount \div stop_distance ELSE 0

-----------------------------------------------------------------------------
(* BacktestEngine (core/engine/backtest_engine.py) *)

\* faulty variant, for C17: `exit_reason=reason`, without `or 'signal'`
Trade_raw_reason(timestamp, position, exit_price, pnl, reason, holding_period) ==
    [timestamp      |-> timestamp,
     position_type  |-> position.type,
     entry_price    |-> position.entry_price,
     exit_price     |-> exit_price,
     position_size  |-> position.size,
     pnl            |-> pnl,
     stop_loss      |-> position.stop_loss,
     take_profit    |-> position.take_profit,
     exit_reason    |-> reason,
     holding_period |-> holding_period]

\* Trade(...) as both engines build it, `exit_reason=reason or 'signal'`
Trade(timestamp, position, exit_price, pnl, reason, holding_period) ==
    [timestamp      |-> timestamp,
     position_type  |-> position.type,
     entry_price    |-> position.entry_price,
     exit_price     |-> exit_price,
     position_size  |-> position.size,
     pnl            |-> pnl,
     stop_loss      |-> position.stop_loss,
     take_profit    |-> position.take_profit,
     exit_reason    |-> IF reason = "" THEN "signal" ELSE reason,
     holding_period |-> holding_period]

\* faulty variant, for C21: the stop and the target are stored in each other's field
Position_swapped(direction, entry_price, size, stop_loss, take_profit, entry_time) ==
    [type        |-> direction,
     entry_price |-> entry_price,
     size        |-> size,
     stop_loss   |-> take_profit,
     take_profit |-> stop_loss,
     entry_time  |-> entry_time]

\* faulty variant, for C29: the entry time is read from a clock shared by the
\* instances, which advances with every bar any of them processes
Position_shared_clock(direction, entry_price, size, stop_loss, take_profit, entry_time) ==
    [type        |-> direction,
     entry_price |-> entry_price,
     size        |-> size,
     stop_loss   |-> stop_loss,
     take_profit |-> take_profit,
     entry_time  |-> bt.i + twin.i]

\* the position dict both engines store in self.current_position
Position(direction, entry_price, size, stop_loss, take_profit, entry_time) ==
    [type        |-> direction,
     entry_price |-> entry_price,
     size        |-> size,
     stop_loss   |-> stop_loss,
     take_profit |-> take_profit,
     entry_time  |-> entry_time]

\* faulty variant, for C22: the long formula is used for a short as well
unrealized_pnl_long_only(position, current_price) ==
    (current_price - position.entry_price) * position.size

\* (current_price - entry_price) * size for a long, mirrored for a short
unrealized_pnl(position, current_price) ==
    IF position.type = "long"
    THEN (current_price - position.entry_price) * position.size
    ELSE (position.entry_price - current_price) * position.size

\* BacktestEngine.__init__
BacktestInit ==
    [pc               |-> "loop",
     i                |-> 0,
     initial_capital  |-> InitialCapital,
     current_capital  |-> InitialCapital,
     trades           |-> <<>>,
     current_position |-> None,
     peak_capital     |-> InitialCapital,
     max_drawdown     |-> 0,
     opened           |-> 0,
     window           |-> <<>>,
     result           |-> None]

\* faulty variant, for C2: `=` for `+=`, capital restarts from the initial capital
Backtest_update_metrics_assign(e, trade) ==
    LET capital == e.initial_capital + trade.pnl
        peak == Max(e.peak_capital, capital)
        current_drawdown == Drawdown(peak, capital)
    IN  [e EXCEPT !.trades = Append(@, trade),
                  !.current_capital = capital,
                  !.peak_capital = peak,
                  !.max_drawdown = Max(@, current_drawdown)]

\* faulty variant, for C15: max_drawdown follows the current drawdown
Backtest_update_metrics_last_drawdown(e, trade) ==
    LET capital == e.current_capital + trade.pnl
        peak == Max(e.peak_capital, capital)
        current_drawdown == Drawdown(peak, capital)
    IN  [e EXCEPT !.trades = Append(@, trade),
                  !.current_capital = capital,
                  !.peak_capital = peak,
                  !.max_drawdown = current_drawdown]

\* BacktestEngine._update_metrics
Backtest_update_metrics(e, trade) ==
    LET capital == e.current_capital + trade.pnl
        peak == Max(e.peak_capital, capital)
        current_drawdown == Drawdown(peak, capital)
    IN  [e EXCEPT !.trades = Append(@, trade),
                  !.current_capital = capital,
                  !.peak_capital = peak,
                  !.max_drawdown = Max(@, current_drawdown)]

\* faulty variant, for C1: the slot is not tested before a position is created
Backtest_should_enter_any(e, signals) == signals.direction # "none"

\* `if not self.current_position and signals['direction']` of BacktestEngine.run
Backtest_should_enter(e, signals) ==
    e.current_position = None /\ signals.direction # "none"

\* one iteration of the loop of BacktestEngine.run, for row k of the series
BacktestBar(e, name, risk, series, k) ==
    LET window == SubSeq(series, 1, k)
        signals == calculate_signals(name, window)
        e1 == [e EXCEPT !.i = k, !.window = window]
    IN  IF Backtest_should_enter(e, signals) THEN
            LET entry_price == signals.entry_price
                stop_loss == calculate_stop_loss(risk, entry_price, signals.direction,
                                                 signals.volatility)
                take_profit == calculate_take_profit(risk, entry_price,
                                                     signals.direction, stop_loss)
                position_size == calculate_position_size(risk, e.current_capital,
                                                         entry_price, stop_loss)
            IN  IF position_size > 0
                THEN [e1 EXCEPT !.current_position =
                                    Position(signals.direction, entry_price,
                                             position_size, stop_loss, take_profit, k),
                                !.opened = @ + 1]
                ELSE e1
        ELSE IF e.current_position # None THEN
            LET p == e.current_position
                current_price == series[k]
                holding_period == k - p.entry_time
                pnl == unrealized_pnl(p, current_price)
                verdict == should_close_position(risk, p.type, p.entry_price,
                                                 current_price, p.stop_loss,
                                                 p.take_profit, pnl, holding_period)
            IN  IF verdict.close \/ signals.exit_signal
                THEN [Backtest_update_metrics(e1,
                          Trade(k, p, current_price, pnl, verdict.reason, holding_period))
                      EXCEPT !.current_position = None]
                ELSE e1
        ELSE e1

\* sum(1 for trade in self.trades if trade.pnl > 0)
RECURSIVE CountWins(_)
CountWins(trades) ==
    IF trades = <<>> THEN 0
    ELSE (IF trades[1].pnl > 0 THEN 1 ELSE 0) + CountWins(Tail(trades))

\* the BacktestResult built at the end of BacktestEngine.run
BacktestResult(e) ==
    LET winning_trades == CountWins(e.trades)
    IN  [type            |-> "BacktestResult",
         initial_capital |-> e.initial_capital,
         final_capital   |-> e.current_capital,
         total_pnl       |-> SumPnl(e.trades),
         total_trades    |-> Len(e.trades),
         winning_trades  |-> winning_trades,
         losing_trades   |-> Len(e.trades) - winning_trades,
         max_drawdown    |-> e.max_drawdown,
         trades          |-> e.trades]

-----------------------------------------------------------------------------
(* SimulationEngine (core/engine/simulation_engine.py) and SimulationResult *)

\* SimulationEngine.__init__: self.running and the fields of self.result.
\* end_time = -1 and error_message = "" stand for None.
SimulationInit ==
    [running          |-> FALSE,
     status           |-> "running",
     end_time         |-> -1,
     error_message    |-> "",
     initial_capital  |-> InitialCapital,
     current_capital  |-> InitialCapital,
     current_position |-> None,
     total_pnl        |-> 0,
     total_trades     |-> 0,
     winning_trades   |-> 0,
     losing_trades    |-> 0,
     current_drawdown |-> 0,
     max_drawdown     |-> 0,
     trades           |-> <<>>,
     opened           |-> 0,
     window           |-> <<>>]

\* faulty variant, for C34: a trade with pnl = 0 is counted as winning
Simulation_update_metrics_zero_wins(r, trade) ==
    LET capital == r.current_capital + trade.pnl
        peak_capital == Max(r.initial_capital, capital)
        drawdown == Drawdown(peak_capital, capital)
    IN  [r EXCEPT !.trades = Append(@, trade),
                  !.total_trades = @ + 1,
                  !.total_pnl = @ + trade.pnl,
                  !.winning_trades = IF trade.pnl >= 0 THEN @ + 1 ELSE @,
                  !.losing_trades = IF trade.pnl >= 0 THEN @ ELSE @ + 1,
                  !.current_capital = capital,
                  !.current_drawdown = drawdown,
                  !.max_drawdown = Max(@, drawdown)]

\* SimulationResult.update_metrics
Simulation_update_metrics(r, trade) ==
    LET capital == r.current_capital + trade.pnl
        peak_capital == Max(r.initial_capital, capital)
        drawdown == Drawdown(peak_capital, capital)
    IN  [r EXCEPT !.trades = Append(@, trade),
                  !.total_trades = @ + 1,
                  !.total_pnl = @ + trade.pnl,
                  !.winning_trades = IF trade.pnl > 0 THEN @ + 1 ELSE @,
                  !.losing_trades = IF trade.pnl > 0 THEN @ ELSE @ + 1,
                  !.current_capital = capital,
                  !.current_drawdown = drawdown,
                  !.max_drawdown = Max(@, drawdown)]

\* faulty variant, for C12: the except branch records the error and leaves the flag
Simulation_error_flag_kept(s) == [s EXCEPT !.error_message = "error"]

\* the except branch of process_update
Simulation_error(s) ==
    [s EXCEPT !.error_message = "error", !.running = FALSE]

\* what a call of the signal provider or of the risk policy may do
Raises == {"no", "signals", "risk"}

\* `if not self.result.current_position and signals['direction']` of process_update
Simulation_should_enter(s, signals) ==
    s.current_position = None /\ signals.direction # "none"

\* process_update of a running engine, from the signal evaluation up to the
\* on_update callback, for the update `bar` at wall-clock time t.  outcome:
\* "raised" (the except branch ran) or "callback" (on_update is awaited next).
Simulation_step(s, name, risk, bar, t, raises) ==
    LET window == <<bar>>
        signals == calculate_signals(name, window)
        s1 == [s EXCEPT !.window = window]
        raised == [sim |-> Simulation_error(s1), outcome |-> "raised"]
    IN  IF raises = "signals" THEN raised
        ELSE IF Simulation_should_enter(s, signals) THEN
            IF raises = "risk" THEN raised
            ELSE
            LET entry_price == signals.entry_price
                stop_loss == calculate_stop_loss(risk, entry_price, signals.direction,
                                                 signals.volatility)
                take_profit == calculate_take_profit(risk, entry_price,
                                                     signals.direction, stop_loss)
                position_size == calculate_position_size(risk, s.current_capital,
                                                         entry_price, stop_loss)
            IN  [sim |-> IF position_size > 0
                         THEN [s1 EXCEPT !.current_position =
                                            Position(signals.direction, entry_price,
                                                     position_size, stop_loss,
                                                     take_profit, t),
                                         !.opened = @ + 1]
                         ELSE s1,
                 outcome |-> "callback"]
        ELSE IF s.current_position # None THEN
            IF raises = "risk" THEN raised
            ELSE
            LET p == s.current_position
                current_price == bar
                holding_period == t - p.entry_time
                pnl == unrealized_pnl(p, current_price)
                verdict == should_close_position(risk, p.type, p.entry_price,
                                                 current_price, p.stop_loss,
                                                 p.take_profit, pnl, holding_period)
            IN  [sim |-> IF verdict.close \/ signals.exit_signal
                         THEN [Simulation_update_metrics(s1,
                                   Trade(t, p, current_price, pnl, verdict.reason,
                                         holding_period))
                               EXCEPT !.current_position = None]
                         ELSE s1,
                 outcome |-> "callback"]
        ELSE [sim |-> s1, outcome |-> "callback"]

\* faulty variant, for C9: the running flag is not tested
Simulation_process_unguarded(s, name, risk, bar, t, raises) ==
    Simulation_step(s, name, risk, bar, t, raises)

\* The body of process_update up to the on_update callback.  outcome "noop": the
\* call returned at `if not self.running`.
Simulation_process(s, name, risk, bar, t, raises) ==
    IF ~s.running THEN [sim |-> s, outcome |-> "noop"]
    ELSE Simulation_step(s, name, risk, bar, t, raises)

\* the return of `await self.on_update(self.result)`, normally or by an exception
Simulation_callback(s, ok) == IF ok THEN s ELSE Simulation_error(s)

\* the body of SimulationEngine.start
Simulation_start(s) ==
    IF s.running THEN s
    ELSE [s EXCEPT !.running = TRUE, !.status = "running"]

\* faulty variant, for C10: stop() marks the result and leaves the flag set
Simulation_stop_flag_kept(s, t) ==
    IF ~s.running THEN s
    ELSE [s EXCEPT !.status = "completed", !.end_time = t]

\* faulty variant, for C13: stop() without `if not self.running: return`
Simulation_stop_unguarded(s, t) ==
    [s EXCEPT !.running = FALSE, !.status = "completed", !.end_time = t]

\* faulty variant, for C14: stop() drops the open position
Simulation_stop_closing(s, t) ==
    IF ~s.running THEN s
    ELSE [s EXCEPT !.running = FALSE, !.status = "completed", !.end_time = t,
                   !.current_position = None]

\* the body of SimulationEngine.stop
Simulation_stop(s, t) ==
    IF ~s.running THEN s
    ELSE [s EXCEPT !.running = FALSE, !.status = "completed", !.end_time = t]

-----------------------------------------------------------------------------
(* asyncio.Lock, as SimulationEngine uses it in `async with self._lock` *)

Tasks == 1..NTasks

LockInit == [locked |-> FALSE, waiters |-> <<>>, woken |-> {}]

\* faulty variant, for C6: a lock that only looks at its queue
CanAcquire_unlocked(l) == l.waiters = <<>>

\* faulty variant, for C7: a free lock is taken past the waiter just woken
CanAcquire_barging(l) == ~l.locked

\* Lock.acquire without waiting: the lock is free and nobody waits for it
CanAcquire(l) == ~l.locked /\ l.waiters = <<>>

\* faulty variant, for C8: release() wakes nobody
Release_no_wake(l) == [l EXCEPT !.locked = FALSE]

\* Lock.release: unlock and wake the first waiter up
Release(l) ==
    [l EXCEPT !.locked = FALSE,
              !.woken = IF l.waiters = <<>> THEN {} ELSE {Head(l.waiters)}]

Remove(seq, x) == SelectSeq(seq, LAMBDA y : y # x)

IdleTask == [pc |-> "idle", op |-> "none", bar |-> 0, id |-> 0]

-----------------------------------------------------------------------------
(* Initial states *)

Series(n) == UNION {[1..k -> Prices] : k \in 0..n}

InitEngines ==
    /\ bt = BacktestInit
    /\ twin = BacktestInit
    /\ sim = SimulationInit
    /\ fed = 0
    /\ callbacks = 0
    /\ lock = LockInit
    /\ task = [t \in Tasks |-> IdleTask]
    /\ arrived = <<>>
    /\ entered = <<>>

\* neither the custom replay loop, the trading simulator nor the simulation
\* service is constructed in a run of the engines
InitCommon ==
    /\ InitEngines
    /\ backtester = None
    /\ account = None
    /\ service = None

\* no risk policy is examined on its own
NoPolicy == held = None

\* no consensus routine is involved in a run of the engines
NoConsensus ==
    /\ provider_signals = <<>>
    /\ consensus = [backtester |-> "pending", performance |-> "pending",
                    simulator |-> "pending", executor |-> "pending"]

Init ==
    /\ strategy \in Strategies
    /\ risk_name \in RiskManagers
    /\ data \in Series(MaxBars)
    /\ InitCommon
    /\ NoConsensus
    /\ NoPolicy

-----------------------------------------------------------------------------
(* The replay driver, then the streaming driver fed the same series by one caller *)

BtStep ==
    /\ bt.pc = "loop"
    /\ bt.i < Len(data)
    /\ bt' = BacktestBar(bt, strategy, risk_name, data, bt.i + 1)
    /\ UNCHANGED <<backtester, account, service, twin, held, provider_signals, consensus, strategy, risk_name, data, sim, fed, callbacks,
                   lock, task, arrived, entered>>

BtReturn ==
    /\ bt.pc = "loop"
    /\ bt.i = Len(data)
    /\ bt' = [bt EXCEPT !.pc = "returned", !.result = BacktestResult(bt)]
    /\ UNCHANGED <<backtester, account, service, twin, held, provider_signals, consensus, strategy, risk_name, data, sim, fed, callbacks,
                   lock, task, arrived, entered>>

\* datetime.now() as the engine reads it.  The wall clock is ahead of a bar's
\* timestamp by a lag when the feed delivers the bar: bar k, stamped minute k, is
\* processed at minute k or k + 1; a stop between bars k and k + 1 reads k + 1.
Lags == {0, 1}

Arrival(k, lag) == k + lag

StopTime(k) == k + 1

\* SimulationService.start_simulation: await engine.start(), before the feed is
\* subscribed
SeqStart ==
    /\ bt.pc = "returned"
    /\ fed = 0
    /\ sim' = Simulation_start(sim)
    /\ UNCHANGED <<backtester, account, service, twin, held, provider_signals, consensus, strategy, risk_name, data, bt, fed, callbacks,
                   lock, task, arrived, entered>>

\* SimulationService.stop_simulation: await engine.stop()
SeqStop ==
    /\ bt.pc = "returned"
    /\ sim' = Simulation_stop(sim, StopTime(fed))
    /\ UNCHANGED <<backtester, account, service, twin, held, provider_signals, consensus, strategy, risk_name, data, bt, fed, callbacks,
                   lock, task, arrived, entered>>


\* SimulationService._handle_kline_update: await engine.process_update(bar)
SeqProcess ==
    /\ bt.pc = "returned"
    /\ fed < Len(data)
    /\ \E lag \in Lags, raises \in Raises, ok \in BOOLEAN :
         LET t == Arrival(fed + 1, lag)
             r == Simulation_process(sim, strategy, risk_name, data[fed + 1], t, raises)
         IN  /\ fed' = fed + 1
             /\ IF r.outcome = "callback"
                THEN /\ sim' = Simulation_callback(r.sim, ok)
                     /\ callbacks' = callbacks + 1
                ELSE /\ sim' = r.sim
                     /\ UNCHANGED callbacks
    /\ UNCHANGED <<backtester, account, service, twin, held, provider_signals, consensus, strategy, risk_name, data, bt, lock, task, arrived, entered>>

Next == BtStep \/ BtReturn \/ SeqStart \/ SeqStop \/ SeqProcess

Spec == Init /\ [][Next]_vars

-----------------------------------------------------------------------------
(* One SimulationEngine called by concurrent tasks of the event loop *)

ConcPrices == {9900, 10000}

InitConc ==
    /\ strategy = "level"
    /\ risk_name = "fixed"
    /\ data \in UNION {[1..k -> ConcPrices] : k \in 0..MaxConcBars}
    /\ InitCommon
    /\ NoConsensus
    /\ NoPolicy

Ops == {"start", "stop", "process"}

InBody(t) == task[t].pc \in {"body", "callback"}

\* A task calls start(), stop() or process_update(bar) and reaches
\* `async with self._lock`: it takes the free lock or joins the waiters.
\* Tasks are interchangeable, so a new call runs in the idle task of least number.
Call(t, o) ==
    /\ task[t].pc = "idle"
    /\ \A u \in Tasks : u < t => task[u].pc # "idle"
    /\ Len(arrived) < MaxCalls
    /\ o = "process" => fed < Len(data)
    /\ LET id == Len(arrived) + 1
           k == IF o = "process" THEN fed + 1 ELSE 0
       IN  /\ arrived' = Append(arrived, id)
           /\ fed' = IF o = "process" THEN fed + 1 ELSE fed
           /\ IF CanAcquire(lock)
              THEN /\ lock' = [lock EXCEPT !.locked = TRUE]
                   /\ task' = [task EXCEPT ![t] = [pc |-> "body", op |-> o,
                                                   bar |-> k, id |-> id]]
              ELSE /\ lock' = [lock EXCEPT !.waiters = Append(@, t)]
                   /\ task' = [task EXCEPT ![t] = [pc |-> "waiting", op |-> o,
                                                   bar |-> k, id |-> id]]
    /\ UNCHANGED <<backtester, account, service, twin, held, provider_signals, consensus, strategy, risk_name, data, bt, sim, callbacks, entered>>

\* The event loop resumes a waiter whose future release() has completed: the
\* rest of Lock.acquire removes it from the waiters and takes the lock.
Wake(t) ==
    /\ task[t].pc = "waiting"
    /\ t \in lock.woken
    /\ lock' = [locked |-> TRUE, waiters |-> Remove(lock.waiters, t), woken |-> {}]
    /\ task' = [task EXCEPT ![t].pc = "body"]
    /\ UNCHANGED <<backtester, account, service, twin, held, provider_signals, consensus, strategy, risk_name, data, bt, sim, fed, callbacks, arrived,
                   entered>>

\* the body of start() under the lock, and the release at the end of the block
StartBody(t) ==
    /\ task[t].pc = "body"
    /\ task[t].op = "start"
    /\ sim' = Simulation_start(sim)
    /\ entered' = Append(entered, task[t].id)
    /\ lock' = Release(lock)
    /\ task' = [task EXCEPT ![t] = IdleTask]
    /\ UNCHANGED <<backtester, account, service, twin, held, provider_signals, consensus, strategy, risk_name, data, bt, fed, callbacks, arrived>>

\* the body of stop() under the lock, and the release at the end of the block
StopBody(t) ==
    /\ task[t].pc = "body"
    /\ task[t].op = "stop"
    /\ sim' = Simulation_stop(sim, StopTime(fed))
    /\ entered' = Append(entered, task[t].id)
    /\ lock' = Release(lock)
    /\ task' = [task EXCEPT ![t] = IdleTask]
    /\ UNCHANGED <<backtester, account, service, twin, held, provider_signals, consensus, strategy, risk_name, data, bt, fed, callbacks, arrived>>

\* the body of process_update() under the lock, up to `await self.on_update(...)`
\* or to the return or raise that leaves the block and releases the lock
ProcessBody(t) ==
    /\ task[t].pc = "body"
    /\ task[t].op = "process"
    /\ entered' = Append(entered, task[t].id)
    /\ \E lag \in Lags, raises \in Raises :
         LET r == Simulation_process(sim, strategy, risk_name, data[task[t].bar],
                                     Arrival(task[t].bar, lag), raises)
         IN  /\ sim' = r.sim
             /\ IF r.outcome = "callback"
                THEN /\ callbacks' = callbacks + 1
                     /\ task' = [task EXCEPT ![t].pc = "callback"]
                     /\ UNCHANGED lock
                ELSE /\ lock' = Release(lock)
                     /\ task' = [task EXCEPT ![t] = IdleTask]
                     /\ UNCHANGED callbacks
    /\ UNCHANGED <<backtester, account, service, twin, held, provider_signals, consensus, strategy, risk_name, data, bt, fed, arrived>>

\* on_update returns or raises; process_update leaves the block
CallbackReturn(t) ==
    /\ task[t].pc = "callback"
    /\ \E ok \in BOOLEAN : sim' = Simulation_callback(sim, ok)
    /\ lock' = Release(lock)
    /\ task' = [task EXCEPT ![t] = IdleTask]
    /\ UNCHANGED <<backtester, account, service, twin, held, provider_signals, consensus, strategy, risk_name, data, bt, fed, callbacks, arrived, entered>>

NextConc ==
    \E t \in Tasks :
        \/ \E o \in Ops : Call(t, o)
        \/ Wake(t)
        \/ StartBody(t)
        \/ StopBody(t)
        \/ ProcessBody(t)
        \/ CallbackReturn(t)

SpecConc == InitConc /\ [][NextConc]_vars

\* The event loop runs every task that can run; on_update terminates.
Fairness ==
    \A t \in Tasks :
        /\ WF_vars(Wake(t))
        /\ WF_vars(StartBody(t))
        /\ WF_vars(StopBody(t))
        /\ WF_vars(ProcessBody(t))
        /\ WF_vars(CallbackReturn(t))

FairSpecConc == SpecConc /\ Fairness

-----------------------------------------------------------------------------
(* The consensus routines: custom_backtesting/backtester.py,
   custom_backtesting/performance.py, trading/simulator.py, trading/executor.py.
   A signal is reduced to its 'direction'; "none" stands for None, as a signal's
   direction and as a routine's result. *)

Directions == {"long", "short", "none", "exit"}

\* sum(1 for signal in signals if signal.get('direction') == direction)
CountDirection(signals, direction) ==
    Cardinality({i \in DOMAIN signals : signals[i] = direction})

\* faulty variant, for C36: `>=` for `>` against the threshold
Backtester_validate_signals_half(signals, n_strategies) ==
    LET long_count == CountDirection(signals, "long")
        short_count == CountDirection(signals, "short")
    IN  IF 2 * long_count >= n_strategies THEN "long"
        ELSE IF 2 * short_count >= n_strategies THEN "short"
        ELSE "none"

\* Backtester._validate_signals, of a Backtester with n_strategies strategies:
\* threshold = len(self.strategies) / 2
Backtester_validate_signals(signals, n_strategies) ==
    LET long_count == CountDirection(signals, "long")
        short_count == CountDirection(signals, "short")
    IN  IF 2 * long_count > n_strategies THEN "long"
        ELSE IF 2 * short_count > n_strategies THEN "short"
        ELSE "none"

\* faulty variant, for C18: `>=` for `>` at three and more strategies
PerformanceAnalyzer_validate_signals_half(signals) ==
    LET total_strategies == Len(signals)
        long_count == CountDirection(signals, "long")
        short_count == CountDirection(signals, "short")
    IN  IF total_strategies = 1 THEN
            IF long_count = 1 THEN "long"
            ELSE IF short_count = 1 THEN "short"
            ELSE "none"
        ELSE IF total_strategies = 2 THEN
            IF long_count = 2 THEN "long"
            ELSE IF short_count = 2 THEN "short"
            ELSE "none"
        ELSE
            IF 2 * long_count >= total_strategies THEN "long"
            ELSE IF 2 * short_count >= total_strategies THEN "short"
            ELSE "none"

\* PerformanceAnalyzer._validate_signals
PerformanceAnalyzer_validate_signals(signals) ==
    LET total_strategies == Len(signals)
        long_count == CountDirection(signals, "long")
        short_count == CountDirection(signals, "short")
    IN  IF total_strategies = 1 THEN
            IF long_count = 1 THEN "long"
            ELSE IF short_count = 1 THEN "short"
            ELSE "none"
        ELSE IF total_strategies = 2 THEN
            IF long_count = 2 THEN "long"
            ELSE IF short_count = 2 THEN "short"
            ELSE "none"
        ELSE
            IF 2 * long_count > total_strategies THEN "long"
            ELSE IF 2 * short_count > total_strategies THEN "short"
            ELSE "none"

\* TradingSimulator.process_market_data: only the signals whose direction is
\* not None are handed to _combine_signals
CollectSignals(signals) == SelectSeq(signals, LAMBDA d : d # "none")

\* TradingSimulator._combine_signals, of a simulator with n_strategies strategies
TradingSimulator_combine_signals(signals, n_strategies) ==
    LET long_count == CountDirection(signals, "long")
        short_count == CountDirection(signals, "short")
    IN  IF signals = <<>> THEN "none"
        ELSE IF 2 * long_count > n_strategies THEN "long"
        ELSE IF 2 * short_count > n_strategies THEN "short"
        ELSE IF CountDirection(signals, "exit") > 0 THEN "exit"
        ELSE "none"

\* TradingExecutor._validate_signals
TradingExecutor_validate_signals(signals) ==
    LET long_count == CountDirection(signals, "long")
        short_count == CountDirection(signals, "short")
    IN  IF long_count >= 3 THEN "long"
        ELSE IF short_count >= 3 THEN "short"
        ELSE "none"

\* one signal per configured provider, N >= 1 providers
InitConsensus ==
    /\ provider_signals \in UNION {[1..n -> Directions] : n \in 1..MaxProviders}
    /\ consensus = [backtester |-> "pending", performance |-> "pending",
                    simulator |-> "pending", executor |-> "pending"]
    /\ strategy = "level"
    /\ risk_name = "fixed"
    /\ data = <<>>
    /\ InitCommon
    /\ NoPolicy

engineVars == <<strategy, risk_name, data, bt, sim, fed, callbacks,
                lock, task, arrived, entered>>

BacktesterValidate ==
    /\ consensus.backtester = "pending"
    /\ consensus' = [consensus EXCEPT !.backtester =
           Backtester_validate_signals(provider_signals, Len(provider_signals))]
    /\ UNCHANGED <<backtester, account, service, twin, held, provider_signals, engineVars>>

PerformanceValidate ==
    /\ consensus.performance = "pending"
    /\ consensus' = [consensus EXCEPT !.performance =
           PerformanceAnalyzer_validate_signals(provider_signals)]
    /\ UNCHANGED <<backtester, account, service, twin, held, provider_signals, engineVars>>

SimulatorCombine ==
    /\ consensus.simulator = "pending"
    /\ consensus' = [consensus EXCEPT !.simulator =
           TradingSimulator_combine_signals(CollectSignals(provider_signals),
                                            Len(provider_signals))]
    /\ UNCHANGED <<backtester, account, service, twin, held, provider_signals, engineVars>>

ExecutorValidate ==
    /\ consensus.executor = "pending"
    /\ consensus' = [consensus EXCEPT !.executor =
           TradingExecutor_validate_signals(provider_signals)]
    /\ UNCHANGED <<backtester, account, service, twin, held, provider_signals, engineVars>>

NextConsensus ==
    BacktesterValidate \/ PerformanceValidate \/ SimulatorCombine \/ ExecutorValidate

SpecConsensus == InitConsensus /\ [][NextConsensus]_vars

-----------------------------------------------------------------------------
(* Two BacktestEngine instances replaying the same series *)

MaxReplayBars == 4   \* longest bar series replayed by the two instances

\* closes of the replayed bars; 4000 is a gap far below any stop
ReplayPrices == {4000, 9900, 10000, 10300}

InitReplay ==
    /\ strategy \in Strategies
    /\ risk_name \in RiskManagers
    /\ data \in UNION {[1..k -> ReplayPrices] : k \in 0..MaxReplayBars}
    /\ InitCommon
    /\ NoConsensus
    /\ NoPolicy

replayVars == <<backtester, account, service, held, provider_signals, consensus, strategy, risk_name, data, sim, fed,
                callbacks, lock, task, arrived, entered>>

\* one iteration of the loop of the first instance
ReplayStep ==
    /\ bt.pc = "loop"
    /\ bt.i < Len(data)
    /\ bt' = BacktestBar(bt, strategy, risk_name, data, bt.i + 1)
    /\ UNCHANGED <<twin, replayVars>>

ReplayReturn ==
    /\ bt.pc = "loop"
    /\ bt.i = Len(data)
    /\ bt' = [bt EXCEPT !.pc = "returned", !.result = BacktestResult(bt)]
    /\ UNCHANGED <<twin, replayVars>>

\* one iteration of the loop of the second instance
TwinStep ==
    /\ twin.pc = "loop"
    /\ twin.i < Len(data)
    /\ twin' = BacktestBar(twin, strategy, risk_name, data, twin.i + 1)
    /\ UNCHANGED <<bt, replayVars>>

TwinReturn ==
    /\ twin.pc = "loop"
    /\ twin.i = Len(data)
    /\ twin' = [twin EXCEPT !.pc = "returned", !.result = BacktestResult(twin)]
    /\ UNCHANGED <<bt, replayVars>>

NextReplay == ReplayStep \/ ReplayReturn \/ TwinStep \/ TwinReturn

SpecReplay == InitReplay /\ [][NextReplay]_vars

-----------------------------------------------------------------------------
(* A risk policy on its own: built, asked for a stop and a target, then asked
   about the position bar by bar *)

MaxTicks == 3   \* bars a caller asks the policy about

Policies == RiskManagers \cup {"dynamic"}

\* risk_per_trade values a caller configures, in percent
RiskPerTradeValues == {-1, 0, 2, 10, 11, 50, 100}

\* trailing_stop_pct values a caller configures for basic, in percent; 0 is None
TrailingStopValues == {0, 1}

EntryPrices == {10000, 10300}

Volatilities == {0, 100, 300}

TickPrices == {9500, 9700, 9900, 10000, 10150, 10300, 10500, 10700, 11000}

\* the params the caller passes, merged with the policy's defaults; basic is
\* given max_holding_minutes = 3
PolicyParams(name) ==
    IF name = "dynamic" THEN {DynamicParams}
    ELSE IF name = "basic" THEN
        {[RiskParams(name) EXCEPT !.risk_per_trade = r, !.trailing_stop_pct = ts,
                                  !.max_holding_minutes = 3] :
            r \in RiskPerTradeValues, ts \in TrailingStopValues}
    ELSE {[RiskParams(name) EXCEPT !.risk_per_trade = r] : r \in RiskPerTradeValues}

NoPosition(name, params) ==
    [pc |-> "new", policy |-> name, params |-> params, position_type |-> "none",
     entry_price |-> 0, stop_loss |-> 0, take_profit |-> 0, volatility |-> 0,
     price |-> 0, highest |-> 0, lowest |-> 0, holding |-> 0, verdict |-> NoClose]

InitPolicy ==
    /\ \E name \in Policies : \E params \in PolicyParams(name) :
          held = NoPosition(name, params)
    /\ strategy = "level"
    /\ risk_name = "fixed"
    /\ data = <<>>
    /\ InitCommon
    /\ NoConsensus

policyVars == <<backtester, account, service, twin, provider_signals, consensus, strategy, risk_name, data, bt, sim,
                fed, callbacks, lock, task, arrived, entered>>

\* get_risk_manager(name, params), or DynamicRiskManagement(params), which
\* validates nothing
PolicyConstruct ==
    /\ held.pc = "new"
    /\ held' = [held EXCEPT !.pc =
                   IF held.policy = "dynamic" \/ get_risk_manager(held.policy, held.params)
                   THEN "ready" ELSE "rejected"]
    /\ UNCHANGED policyVars

\* the caller asks for the stop and the target of a new position
PolicyOpen ==
    /\ held.pc = "ready"
    /\ \E position_type \in {"long", "short"}, entry_price \in EntryPrices,
          volatility \in Volatilities :
         LET dyn == Dynamic_calculate_risk_params(entry_price,
                        IF position_type = "long" THEN 1 ELSE -1)
             stop_loss == IF held.policy = "dynamic" THEN dyn.stop_loss
                          ELSE calculate_stop_loss(held.policy, entry_price,
                                                   position_type, volatility)
             take_profit == IF held.policy = "dynamic" THEN dyn.take_profit
                            ELSE calculate_take_profit(held.policy, entry_price,
                                                       position_type, stop_loss)
         IN  held' = [held EXCEPT !.pc = "open",
                                  !.position_type = position_type,
                                  !.entry_price = entry_price,
                                  !.stop_loss = stop_loss,
                                  !.take_profit = take_profit,
                                  !.volatility = volatility,
                                  !.price = entry_price,
                                  !.highest = entry_price,
                                  !.lowest = entry_price]
    /\ UNCHANGED policyVars

\* should_close_position of the policy held; DynamicRiskManagement has none
Policy_should_close_position(h, current_price, pnl, holding_period) ==
    IF h.policy = "dynamic" THEN NoClose
    ELSE IF h.policy = "basic"
    THEN BasicRiskManager_should_close_position(h.params, h.position_type,
             h.entry_price, current_price, h.stop_loss, h.take_profit,
             pnl, holding_period)
    ELSE Base_should_close_position(h.position_type, h.entry_price, current_price,
             h.stop_loss, h.take_profit, pnl, holding_period)

\* the stop after the policy's trailing adjustment for the bar
Policy_adjust_stop_loss(h, current_price, pnl) ==
    IF h.policy = "dynamic"
    THEN Dynamic_update_risk_params(current_price,
             [entry_price |-> h.entry_price, stop_loss |-> h.stop_loss,
              take_profit |-> h.take_profit,
              size |-> IF h.position_type = "long" THEN 1 ELSE -1]).stop_loss
    ELSE LET adjusted == IF h.policy = "atr"
                         THEN ATR_adjust_stop_loss(h.position_type, h.entry_price,
                                  current_price, h.stop_loss, pnl)
                         ELSE Base_adjust_stop_loss(h.position_type, h.entry_price,
                                  current_price, h.stop_loss, pnl)
         IN  IF adjusted = NoAdjust THEN h.stop_loss ELSE adjusted

\* one more minute and one more bar: the caller asks whether to close, and, if
\* not, for the adjusted stop
PolicyTick ==
    /\ held.pc = "open"
    /\ held.holding < MaxTicks
    /\ \E current_price \in TickPrices :
         LET pnl == unrealized_pnl([type |-> held.position_type,
                                    entry_price |-> held.entry_price, size |-> 1],
                                   current_price)
             holding_period == held.holding + 1
             verdict == Policy_should_close_position(held, current_price, pnl,
                                                     holding_period)
         IN  held' = [held EXCEPT
                 !.pc = IF verdict.close THEN "closed" ELSE "open",
                 !.price = current_price,
                 !.highest = Max(@, current_price),
                 !.lowest = Min(@, current_price),
                 !.holding = holding_period,
                 !.verdict = verdict,
                 !.stop_loss = IF verdict.close THEN @
                               ELSE Policy_adjust_stop_loss(held, current_price, pnl)]
    /\ UNCHANGED policyVars

NextPolicy == PolicyConstruct \/ PolicyOpen \/ PolicyTick

SpecPolicy == InitPolicy /\ [][NextPolicy]_vars

-----------------------------------------------------------------------------
(* One BacktestEngine instance whose run is invoked twice on the same series *)

\* The caller keeps the Result of the first invocation (twin holds the engine
\* as it returned) and invokes run(data) again on the same instance: the loop
\* starts over, and the fields of self are what the first invocation left.
Rerun ==
    /\ bt.pc = "returned"
    /\ twin.pc = "loop"
    /\ twin' = bt
    /\ bt' = [bt EXCEPT !.pc = "loop", !.i = 0, !.result = None]
    /\ UNCHANGED replayVars

NextRerun == BtStep \/ BtReturn \/ Rerun

SpecRerun == Init /\ [][NextRerun]_vars

-----------------------------------------------------------------------------
(* The custom replay loop (custom_backtesting) and its risk managers *)

MaxCustomBars == 3   \* longest series replayed by PerformanceAnalyzer.run

\* closes of the replayed bars: 3% below, at and 7% above the reference price
CustomPrices == {9700, 10000, 10700}

\* the consensus inputs of one bar: one strategy, whose signal is an input
CustomSignals == {"long", "short", "none"}

\* BaseRiskManagement.__init__ and the subclasses' __init__, params = {}:
\* percentages for risk_per_trade, stop_loss_pct and take_profit_pct
RiskManagementParams ==
    [max_leverage |-> 10, account_balance |-> 0, risk_per_trade |-> 1,
     stop_loss_pct |-> 2, take_profit_pct |-> 6, leverage |-> 3]

\* FixedStopLoss.calculate_risk_params: (stop_loss, take_profit)
FixedStopLoss_calculate_risk_params(entry_price, position_size) ==
    [stop_loss   |-> IF position_size > 0
                     THEN (entry_price * (100 - RiskManagementParams.stop_loss_pct)) \div 100
                     ELSE (entry_price * (100 + RiskManagementParams.stop_loss_pct)) \div 100,
     take_profit |-> IF position_size > 0
                     THEN (entry_price * (100 + RiskManagementParams.take_profit_pct)) \div 100
                     ELSE (entry_price * (100 - RiskManagementParams.take_profit_pct)) \div 100]

\* self.risk_manager.calculate_risk_params(entry_price, position_size)
RiskManagement_calculate_risk_params(name, entry_price, position_size) ==
    IF name = "fixed_stoploss"
    THEN FixedStopLoss_calculate_risk_params(entry_price, position_size)
    ELSE Dynamic_calculate_risk_params(entry_price, position_size)

\* commission rate of the Backtester, in 1/10000 (0.0004)
CommissionRate == 4

\* Backtester.__init__, and the reset at the head of PerformanceAnalyzer.run
Backtester_init(name) ==
    [type            |-> "Backtester",
     pc              |-> "loop",
     i               |-> 0,
     risk_manager    |-> name,
     initial_balance |-> InitialCapital,
     balance         |-> InitialCapital,
     positions       |-> <<>>,
     trades          |-> <<>>,
     results         |-> None]

\* Backtester._open_position(signal, row, index)
Backtester_open_position(b, signal, close, timestamp) ==
    LET position_size == (b.balance * RiskManagementParams.risk_per_trade) \div 100
        entry_price == close
        risk == RiskManagement_calculate_risk_params(b.risk_manager, entry_price,
                                                     position_size)
        commission == (position_size * CommissionRate) \div 10000
        position == [type             |-> signal,
                     entry_price      |-> entry_price,
                     size             |-> position_size,
                     stop_loss        |-> risk.stop_loss,
                     take_profit      |-> risk.take_profit,
                     leverage         |-> RiskManagementParams.leverage,
                     entry_time       |-> timestamp,
                     entry_commission |-> commission]
    IN  [b EXCEPT !.balance = b.balance - commission,
                  !.positions = Append(b.positions, position)]

\* Backtester._close_position(row, index, reason)
Backtester_close_position(b, close, timestamp, reason) ==
    LET position == b.positions[1]
        exit_price == close
        move == IF position.type = "long" THEN exit_price - position.entry_price
                ELSE position.entry_price - exit_price
        pnl == (move * position.size * position.leverage) \div position.entry_price
        exit_commission == (position.size * CommissionRate) \div 10000
        total_commission == position.entry_commission + exit_commission
        trade == [entry_time  |-> position.entry_time,
                  exit_time   |-> timestamp,
                  type        |-> position.type,
                  entry_price |-> position.entry_price,
                  exit_price  |-> exit_price,
                  size        |-> position.size,
                  pnl         |-> pnl,
                  commission  |-> total_commission,
                  reason      |-> reason]
    IN  [b EXCEPT !.balance = b.balance + position.size + pnl - exit_commission,
                  !.trades = Append(b.trades, trade),
                  !.positions = <<>>]

\* Backtester._update_positions(row)
Backtester_update_positions(b, close, timestamp) ==
    IF b.positions = <<>> THEN b
    ELSE LET position == b.positions[1]
             current_price == close
         IN  IF position.type = "long" THEN
                 IF current_price <= position.stop_loss
                 THEN Backtester_close_position(b, close, timestamp, "Stop Loss")
                 ELSE IF current_price >= position.take_profit
                 THEN Backtester_close_position(b, close, timestamp, "Take Profit")
                 ELSE b
             ELSE
                 IF current_price >= position.stop_loss
                 THEN Backtester_close_position(b, close, timestamp, "Stop Loss")
                 ELSE IF current_price <= position.take_profit
                 THEN Backtester_close_position(b, close, timestamp, "Take Profit")
                 ELSE b

\* PerformanceAnalyzer._calculate_equity_curve over the recorded trades
\* (equity starts at results['initial_balance'])
RECURSIVE PerformanceAnalyzer_calculate_equity_curve(_, _)
PerformanceAnalyzer_calculate_equity_curve(equity, trades) ==
    IF trades = <<>> THEN <<>>
    ELSE LET next == equity + trades[1].pnl - trades[1].commission
         IN  <<next>> \o PerformanceAnalyzer_calculate_equity_curve(next, Tail(trades))

\* Backtester._generate_results: the fields the analysis reads
Backtester_generate_results(b) ==
    [initial_balance  |-> b.initial_balance,
     final_balance    |-> b.balance,
     total_trades     |-> Len(b.trades),
     total_pnl        |-> SumPnl(b.trades),
     trades           |-> b.trades]

InitCustom ==
    /\ backtester \in {Backtester_init(name) : name \in {"fixed_stoploss", "dynamic"}}
    /\ account = None
    /\ service = None
    /\ strategy = "level"
    /\ risk_name = "fixed"
    /\ data \in UNION {[1..k -> CustomPrices] : k \in 0..MaxCustomBars}
    /\ InitEngines
    /\ NoConsensus
    /\ NoPolicy

\* one iteration of the loop of PerformanceAnalyzer.run; the strategy's signal
\* for the bar is an input
CustomBar ==
    /\ backtester.pc = "loop"
    /\ backtester.i < Len(data)
    /\ \E signal \in CustomSignals :
         LET index == backtester.i + 1
             close == data[index]
             consensus_signal == PerformanceAnalyzer_validate_signals(<<signal>>)
             updated == Backtester_update_positions(backtester, close, index)
             opened == IF consensus_signal # "none" /\ updated.positions = <<>>
                       THEN Backtester_open_position(updated, consensus_signal,
                                                     close, index)
                       ELSE updated
         IN  backtester' = [opened EXCEPT !.i = index]
    /\ UNCHANGED <<account, service, twin, held, provider_signals, consensus, engineVars>>

\* after the loop: the open position is closed at the last bar, and the
\* results are generated
CustomReturn ==
    /\ backtester.pc = "loop"
    /\ backtester.i = Len(data)
    /\ LET closed == IF backtester.positions # <<>>
                     THEN Backtester_close_position(backtester, data[Len(data)],
                                                    Len(data), "End of Period")
                     ELSE backtester
       IN  backtester' = [closed EXCEPT !.pc = "returned",
                                        !.results = Backtester_generate_results(closed)]
    /\ UNCHANGED <<account, service, twin, held, provider_signals, consensus, engineVars>>

NextCustom == CustomBar \/ CustomReturn

SpecCustom == InitCustom /\ [][NextCustom]_vars

-----------------------------------------------------------------------------
(* The trading simulator (trading/simulator.py) over its DummyAccount *)

MaxMarketBars == 3   \* closed candles handed to process_market_data

MarketPrices == {10000, 10300}

\* the direction of the one strategy's signal for a candle
MarketSignals == {"long", "short", "exit", "none"}

\* the tables SCHEMA_QUERIES creates, and a database file that also holds the
\* tables DummyAccount reads and writes
SchemaTables == {"dummy_accounts", "positions", "trades"}
DummyTables == {"dummy_accounts", "dummy_positions", "dummy_trades"}

\* BaseRiskManager.__init__, params = {}: risk_per_trade in percent,
\* margin_ratio in tenths
BaseRiskManagerParams == [risk_per_trade |-> 1, max_leverage |-> 3, margin_ratio |-> 1]

\* commission_rate of the TradingSimulator, in 1/1000 (0.001)
SimulatorCommissionRate == 1

\* BaseRiskManager.calculate_risk_params; position sizes are quantities in
\* thousandths of a unit, strength is 1.0
BaseRiskManager_calculate_risk_params(current_price, account_balance) ==
    LET position_size ==
            (account_balance * BaseRiskManagerParams.risk_per_trade * 10) \div current_price
        max_position ==
            (account_balance * BaseRiskManagerParams.max_leverage * 1000) \div current_price
    IN  [position_size |-> Min(position_size, max_position),
         stop_loss     |-> None,
         take_profit   |-> None,
         margin_ratio  |-> BaseRiskManagerParams.margin_ratio]

\* size (thousandths) at price (hundredths), in hundredths
Notional(position_size, price) == (position_size * price) \div 1000

\* config['simulation']['initial_balance'], in hundredths (1000.00)
SimulationBalance == 100000

\* DummyAccount.__init__ and create_account(initial_balance)
DummyAccount_init(tables) ==
    [type      |-> "DummyAccount",
     tables    |-> tables,
     balance   |-> SimulationBalance,
     positions |-> <<>>,
     trades    |-> <<>>,
     bars      |-> 0,
     last      |-> None]

\* DummyAccount.record_trade: any sqlite error is swallowed (returns False)
DummyAccount_record_trade(a, trade) ==
    IF "dummy_trades" \in a.tables
    THEN [a EXCEPT !.trades = Append(a.trades, trade)]
    ELSE a

\* the parameters of DummyAccount.update_position
UpdatePositionParameters ==
    {"symbol", "position_size", "entry_price", "current_price", "direction"}

\* DummyAccount.update_position called with the keyword arguments kwargs: a
\* keyword that is no parameter is a TypeError at the call; inside, any
\* sqlite error is swallowed
DummyAccount_update_position(a, kwargs) ==
    IF ~(DOMAIN kwargs \subseteq UpdatePositionParameters)
    THEN [account |-> a, raised |-> "TypeError"]
    ELSE IF "dummy_positions" \notin a.tables
    THEN [account |-> a, raised |-> "none"]
    ELSE LET row == [symbol |-> kwargs.symbol, position_size |-> kwargs.position_size,
                     entry_price |-> kwargs.entry_price,
                     current_price |-> kwargs.current_price,
                     direction |-> kwargs.direction]
             same == {k \in DOMAIN a.positions : a.positions[k].symbol = kwargs.symbol}
         IN  [account |-> [a EXCEPT !.positions =
                              IF same = {} THEN Append(a.positions, row)
                              ELSE [k \in DOMAIN a.positions |->
                                      IF k \in same THEN row ELSE a.positions[k]]],
              raised |-> "none"]

\* TradingSimulator._execute_trade: the closing branch
TradingSimulator_close(a, symbol, signal, current_price, current_position) ==
    IF current_position # None
       /\ (signal = "exit" \/ signal # current_position.direction)
    THEN LET commission ==
                 (Notional(current_position.position_size, current_price)
                      * SimulatorCommissionRate) \div 1000
             move == current_price - current_position.entry_price
             realized_pnl ==
                 IF current_position.direction = "short"
                 THEN 0 - Notional(current_position.position_size, move)
                 ELSE Notional(current_position.position_size, move)
             recorded == DummyAccount_record_trade(a,
                             [symbol |-> symbol, direction |-> "exit",
                              quantity |-> current_position.position_size,
                              price |-> current_price, realized_pnl |-> realized_pnl,
                              commission |-> commission])
             paid == [recorded EXCEPT
                         !.balance = recorded.balance + realized_pnl - commission]
         IN  DummyAccount_update_position(paid,
                 [symbol |-> symbol, position_size |-> 0, entry_price |-> 0,
                  current_price |-> current_price, direction |-> "none",
                  strategy |-> "combined"])
    ELSE [account |-> a, raised |-> "none"]

\* TradingSimulator._execute_trade: the entry branch
TradingSimulator_enter(a, symbol, signal, risk_params, current_price, current_position) ==
    IF signal \in {"long", "short"}
       /\ (current_position = None \/ current_position.position_size = 0)
    THEN LET position_size == risk_params.position_size
             commission ==
                 (Notional(position_size, current_price) * SimulatorCommissionRate)
                     \div 1000
             required_margin ==
                 (Notional(position_size, current_price) * risk_params.margin_ratio)
                     \div 10
         IN  IF required_margin + commission > a.balance
             THEN [account |-> a, raised |-> "none"]
             ELSE LET recorded == DummyAccount_record_trade(a,
                                      [symbol |-> symbol, direction |-> signal,
                                       quantity |-> position_size,
                                       price |-> current_price, realized_pnl |-> None,
                                       commission |-> commission])
                      paid == [recorded EXCEPT
                                  !.balance = recorded.balance - commission]
                  IN  DummyAccount_update_position(paid,
                          [symbol |-> symbol, position_size |-> position_size,
                           entry_price |-> current_price,
                           current_price |-> current_price, direction |-> signal,
                           strategy |-> "combined"])
    ELSE [account |-> a, raised |-> "none"]

\* TradingSimulator._execute_trade
TradingSimulator_execute_trade(a, symbol, signal, risk_params, current_price, current_position) ==
    LET closed == TradingSimulator_close(a, symbol, signal, current_price,
                                         current_position)
    IN  IF closed.raised # "none" THEN closed
        ELSE TradingSimulator_enter(closed.account, symbol, signal, risk_params,
                                    current_price, current_position)

\* next(p for p in positions if p['symbol'] == symbol, None)
CurrentPosition(a, symbol) ==
    LET same == {k \in DOMAIN a.positions : a.positions[k].symbol = symbol}
    IN  IF same = {} THEN None
        ELSE a.positions[CHOOSE k \in same : \A j \in same : k <= j]

\* TradingSimulator.process_market_data for one closed candle of the symbol,
\* of a simulator with one strategy whose signal has the direction `direction`
TradingSimulator_process_market_data(a, symbol, close, direction) ==
    LET final_direction ==
            TradingSimulator_combine_signals(CollectSignals(<<direction>>), 1)
    IN  IF final_direction = "none" THEN [account |-> a, raised |-> "none"]
        ELSE IF "dummy_positions" \notin a.tables
        THEN [account |-> a, raised |-> "OperationalError"]
        ELSE LET current_position == CurrentPosition(a, symbol)
                 risk_params == BaseRiskManager_calculate_risk_params(close, a.balance)
             IN  TradingSimulator_execute_trade(a, symbol, final_direction,
                                                risk_params, close, current_position)

InitTrading ==
    /\ account \in {DummyAccount_init(tables) : tables \in {SchemaTables, DummyTables}}
    /\ backtester = None
    /\ service = None
    /\ strategy = "level"
    /\ risk_name = "fixed"
    /\ data = <<>>
    /\ InitEngines
    /\ NoConsensus
    /\ NoPolicy

\* BinanceWebSocket hands one closed candle to the callback; an exception of
\* the callback is logged there, and the next candle is handed over as before.
\* `last` notes the call: its consensus, what the account held and could
\* afford before it, and how it ended.
MarketData ==
    /\ account # None
    /\ account.bars < MaxMarketBars
    /\ \E close \in MarketPrices : \E direction \in MarketSignals :
         LET outcome == TradingSimulator_process_market_data(account, "BTCUSDT",
                                                             close, direction)
             risk_params == BaseRiskManager_calculate_risk_params(close, account.balance)
             notional == Notional(risk_params.position_size, close)
         IN  account' =
                 [outcome.account EXCEPT
                     !.bars = account.bars + 1,
                     !.last = [consensus  |-> TradingSimulator_combine_signals(
                                                  CollectSignals(<<direction>>), 1),
                               close      |-> close,
                               size       |-> risk_params.position_size,
                               commission |-> (notional * SimulatorCommissionRate)
                                                  \div 1000,
                               held       |-> Len(account.positions),
                               covered    |-> (notional * risk_params.margin_ratio)
                                                  \div 10
                                              + (notional * SimulatorCommissionRate)
                                                  \div 1000 <= account.balance,
                               balance    |-> account.balance,
                               trades     |-> Len(account.trades),
                               raised     |-> outcome.raised]]
    /\ UNCHANGED <<backtester, service, twin, held, provider_signals, consensus, engineVars>>

NextTrading == MarketData

SpecTrading == InitTrading /\ [][NextTrading]_vars

-----------------------------------------------------------------------------
(* The simulation service (backend/services/simulation.py) *)

NServiceCalls == 2   \* coroutines of the service in flight at once

\* ids of the simulations started before the calls
SimulationIds == {"sim-1", "sim-2"}

\* SimulationService after start_simulation has returned for each id: the
\* engine is running, the result is saved, the id is in active_simulations
SimulationService_init ==
    [type               |-> "SimulationService",
     active_simulations |-> SimulationIds,
     running            |-> [id \in SimulationIds |-> TRUE],
     status             |-> [id \in SimulationIds |-> "running"],
     saved_status       |-> [id \in SimulationIds |-> "running"],
     call               |-> [c \in 1..NServiceCalls |->
                                [pc |-> "idle", op |-> "none", id |-> "none",
                                 was_active |-> FALSE, raised |-> "none"]]]

\* SimulationEngine.stop of the engine of simulation id; its lock is free
\* whenever the service calls it
Engine_stop(s, id) ==
    IF ~s.running[id] THEN s
    ELSE [s EXCEPT !.running[id] = FALSE, !.status[id] = "completed"]

\* stop_simulation from its first line to the suspension in
\* exchange.unsubscribe_from_klines (await self.ws_client.close())
SimulationService_stop_begin(s, c, id) ==
    IF id \notin s.active_simulations
    THEN [s EXCEPT !.call[c].pc = "raised", !.call[c].raised = "ValueError"]
    ELSE [Engine_stop(s, id) EXCEPT !.call[c].pc = "closing"]

\* stop_simulation after the suspension: the saved result is updated and the
\* id is deleted from active_simulations (KeyError when it is not there)
SimulationService_stop_finish(s, c, id) ==
    LET updated == [s EXCEPT !.saved_status[id] = "completed"]
    IN  IF id \notin updated.active_simulations
        THEN [updated EXCEPT !.call[c].pc = "raised", !.call[c].raised = "KeyError"]
        ELSE [updated EXCEPT !.active_simulations = @ \ {id},
                             !.call[c].pc = "returned"]

InitService ==
    /\ service = SimulationService_init
    /\ backtester = None
    /\ account = None
    /\ strategy = "level"
    /\ risk_name = "fixed"
    /\ data = <<>>
    /\ InitEngines
    /\ NoConsensus
    /\ NoPolicy

\* a caller invokes stop_simulation(id): the coroutine is scheduled
StopCall(c) ==
    /\ service.call[c].pc = "idle"
    /\ \E id \in SimulationIds :
         service' = [service EXCEPT !.call[c] =
                        [pc |-> "called", op |-> "stop", id |-> id,
                         was_active |-> id \in service.active_simulations,
                         raised |-> "none"]]
    /\ UNCHANGED <<backtester, account, twin, held, provider_signals, consensus, engineVars>>

\* the coroutine runs up to its first suspension
StopBegin(c) ==
    /\ service.call[c].pc = "called"
    /\ service' = SimulationService_stop_begin(service, c, service.call[c].id)
    /\ UNCHANGED <<backtester, account, twin, held, provider_signals, consensus, engineVars>>

\* the coroutine is resumed and runs to its end
StopFinish(c) ==
    /\ service.call[c].pc = "closing"
    /\ service' = SimulationService_stop_finish(service, c, service.call[c].id)
    /\ UNCHANGED <<backtester, account, twin, held, provider_signals, consensus, engineVars>>

\* the exchange hands a kline to _handle_kline_update(id, data): an id that is
\* not active returns at once, otherwise engine.process_update is awaited
KlineCall(c) ==
    /\ service.call[c].pc = "idle"
    /\ \E id \in SimulationIds :
         service' = [service EXCEPT !.call[c] =
                        [pc |-> IF id \in service.active_simulations
                                THEN "processing" ELSE "returned",
                         op |-> "kline", id |-> id, was_active |-> FALSE,
                         raised |-> "none"]]
    /\ UNCHANGED <<backtester, account, twin, held, provider_signals, consensus, engineVars>>

\* engine.process_update returns
KlineOk(c) ==
    /\ service.call[c].pc = "processing"
    /\ service' = [service EXCEPT !.call[c].pc = "returned"]
    /\ UNCHANGED <<backtester, account, twin, held, provider_signals, consensus, engineVars>>

\* engine.process_update raises (the engine has set running = False): the
\* handler invokes stop_simulation(id), which runs up to its first suspension
KlineFail(c) ==
    /\ service.call[c].pc = "processing"
    /\ LET id == service.call[c].id
           failed == [service EXCEPT
                         !.running[id] = FALSE,
                         !.call[c].was_active = id \in service.active_simulations]
       IN  service' = SimulationService_stop_begin(failed, c, id)
    /\ UNCHANGED <<backtester, account, twin, held, provider_signals, consensus, engineVars>>

NextService ==
    \E c \in 1..NServiceCalls :
        \/ StopCall(c)
        \/ StopBegin(c)
        \/ StopFinish(c)
        \/ KlineCall(c)
        \/ KlineOk(c)
        \/ KlineFail(c)

SpecService == InitService /\ [][NextService]_vars

-----------------------------------------------------------------------------
(* Claims *)

Held(e) == IF e.current_position = None THEN 0 ELSE 1

\* C1: in both engines openings and closings alternate, starting with an
\* opening: the positions opened so far exceed the trades recorded so far by
\* one while a position is held and by nothing while the engine is flat.
C1_OpenCloseAlternate ==
    /\ bt.opened - Len(bt.trades) = Held(bt)
    /\ sim.opened - Len(sim.trades) = Held(sim)

C1_Witness ==
    /\ bt.opened = 2 /\ Len(bt.trades) = 2
    /\ sim.opened = 2 /\ Len(sim.trades) = 2

\* C2: after every processed bar, in both engines, current_capital equals
\* initial_capital plus the sum of pnl over the trade log.
C2_CapitalIsInitialPlusPnl ==
    /\ bt.current_capital = bt.initial_capital + SumPnl(bt.trades)
    /\ sim.current_capital = sim.initial_capital + SumPnl(sim.trades)

C2_Witness ==
    /\ Len(bt.trades) = 2 /\ bt.trades[1].pnl > 0 /\ bt.trades[2].pnl < 0
    /\ Len(sim.trades) = 2 /\ sim.trades[1].pnl > 0 /\ sim.trades[2].pnl < 0

\* C3: when BacktestEngine.run returns, no position is left open: a position
\* held after the final bar has been closed with exit_reason end_of_period, and
\* that Trade is in the returned trade log.
C3_NoPositionAtReturn ==
    bt.pc = "returned" =>
        /\ bt.current_position = None
        /\ bt.opened = Len(bt.result.trades)

\* the fields of a Trade that C4 compares
TradeSemantics(trade) ==
    [position_type  |-> trade.position_type,
     entry_price    |-> trade.entry_price,
     exit_price     |-> trade.exit_price,
     position_size  |-> trade.position_size,
     pnl            |-> trade.pnl,
     exit_reason    |-> trade.exit_reason,
     holding_period |-> trade.holding_period]

SameTrades(a, b) ==
    /\ Len(a) = Len(b)
    /\ \A n \in 1..Len(a) : TradeSemantics(a[n]) = TradeSemantics(b[n])

\* the streaming driver was started before the first bar and has applied every
\* bar of the series, none skipped and none failed
SimulationFedAll ==
    /\ fed = Len(data)
    /\ callbacks = Len(data)
    /\ sim.error_message = ""

\* C4: fed the same series with the same signal provider and risk policy, the
\* replay driver and the streaming driver record the same sequence of trades.
C4_SameTradesInBothDrivers ==
    (bt.pc = "returned" /\ SimulationFedAll) => SameTrades(bt.result.trades, sim.trades)

\* C5: at each bar both drivers evaluate the signal provider on the window of
\* all bars received up to and including the current one: bars 1..k at bar k of
\* the replay, and the running history of the bars processed so far in the
\* streaming driver.
C5_WindowIsHistory ==
    /\ bt.i >= 1 => bt.window = SubSeq(data, 1, bt.i)
    /\ (callbacks = fed /\ fed >= 1) => sim.window = SubSeq(data, 1, fed)

-----------------------------------------------------------------------------
(* Claims about concurrent callers *)

Waiting(o) == {t \in Tasks : task[t].pc = "waiting" /\ task[t].op = o}

\* C6: at most one of start(), stop() and process_update() is in its body at
\* any time, the on_update callback included, and whoever is in it holds the lock.
C6_MutualExclusion ==
    /\ Cardinality({t \in Tasks : InBody(t)}) <= 1
    /\ \A t \in Tasks : InBody(t) => lock.locked

C6_Witness ==
    /\ \E t \in Tasks : task[t].pc = "callback"
    /\ Waiting("process") # {}
    /\ Waiting("stop") # {}

\* C7: calls enter their body in the order in which they requested the lock;
\* in particular no update is applied before one that arrived earlier.
C7_ArrivalOrder == entered = SubSeq(arrived, 1, Len(entered))

\* an update is in its callback while two later calls, an update among them,
\* wait for the lock
C7_Witness ==
    /\ \E t \in Tasks : task[t].pc = "callback"
    /\ Len(lock.waiters) = 2
    /\ Waiting("process") # {}

\* C8: under fair scheduling, and with every callback returning, every call
\* of start(), stop() or process_update() eventually returns.
C8_EveryCallReturns ==
    \A t \in Tasks : (task[t].pc # "idle") ~> (task[t].pc = "idle")

C8_Witness ==
    /\ Len(lock.waiters) = 2
    /\ lock.woken = {}
    /\ lock.locked

ProcessBodyStep(t) ==
    /\ task[t].pc = "body"
    /\ task[t].op = "process"
    /\ task'[t].pc # "body"

\* C9: process_update on an engine that is not running changes nothing of the
\* engine or its result and does not invoke on_update.
C9_NotRunningIsNoOp ==
    [][\A t \in Tasks :
          (ProcessBodyStep(t) /\ ~sim.running) =>
              /\ sim' = sim
              /\ callbacks' = callbacks
              /\ task'[t].pc = "idle"]_vars

AllIdle == \A t \in Tasks : task[t].pc = "idle"

\* an update was skipped since the engine stopped with a position held and
\* before any error
C9_Witness ==
    /\ AllIdle
    /\ ~sim.running
    /\ sim.status = "completed"
    /\ sim.error_message = ""
    /\ sim.current_position # None
    /\ fed > callbacks

StopBodyStep(t) ==
    /\ task[t].pc = "body"
    /\ task[t].op = "stop"
    /\ task'[t].pc # "body"

\* C10: stop() is cooperative.  An update inside its critical section finds the
\* engine running until its callback has returned, whatever stop() calls wait
\* for the lock; once stop() has run the engine is not running, only start()
\* makes it run again, and every update that enters meanwhile is a no-op.
C10_CooperativeStop ==
    /\ [](\A t \in Tasks : task[t].pc = "callback" =>
              (sim.running /\ sim.status = "running"))
    /\ [][/\ \A t \in Tasks : StopBodyStep(t) => ~sim'.running
          /\ (~sim.running /\ sim'.running) =>
                 \E t \in Tasks : task[t].pc = "body" /\ task[t].op = "start"
          /\ \A t \in Tasks : (ProcessBodyStep(t) /\ ~sim.running) =>
                 (sim' = sim /\ callbacks' = callbacks)]_vars

C10_Witness ==
    /\ \E t \in Tasks : task[t].pc = "callback"
    /\ Waiting("stop") # {}
    /\ sim.current_position # None

-----------------------------------------------------------------------------
(* Claims about errors, start/stop and the metrics *)

\* C11: when the signal provider or the risk policy raises during
\* process_update, on_update is invoked for that update: every step in which
\* the result becomes error-tagged is a step in which the callback is invoked.
C11_ErrorReachesCallback ==
    [][(sim.error_message = "" /\ sim'.error_message # "") =>
           callbacks' = callbacks + 1]_vars

\* a process_update that leaves its block by an exception, raised before the
\* callback or by it
FailedUpdateStep(t) ==
    \/ /\ task[t].pc = "body"
       /\ task[t].op = "process"
       /\ sim.running
       /\ task'[t].pc = "idle"
    \/ /\ task[t].pc = "callback"
       /\ task'[t].pc = "idle"
       /\ sim' # sim

\* C12: a process_update that fails leaves the engine stopped and tagged with
\* the error; from then on every update is a no-op, and only start() makes the
\* engine run again.
C12_ErrorStopsEngine ==
    [][/\ \A t \in Tasks : FailedUpdateStep(t) =>
              (~sim'.running /\ sim'.error_message # "")
       /\ \A t \in Tasks :
              (ProcessBodyStep(t) /\ ~sim.running /\ sim.error_message # "") =>
                  (sim' = sim /\ callbacks' = callbacks /\ task'[t].pc = "idle")
       /\ (~sim.running /\ sim'.running) =>
              \E t \in Tasks : task[t].pc = "body" /\ task[t].op = "start"]_vars

\* an update raised before its callback, no stop() was called, and a later
\* update has been skipped
C12_Witness ==
    /\ AllIdle
    /\ ~sim.running
    /\ sim.error_message # ""
    /\ sim.status = "running"
    /\ callbacks = 0
    /\ fed = 2
    /\ Len(entered) = 3

StartBodyStep(t) ==
    /\ task[t].pc = "body"
    /\ task[t].op = "start"
    /\ task'[t].pc # "body"

StopTimes == {StopTime(k) : k \in 0..MaxConcBars}

\* C13: start() and stop() are idempotent.  From every reachable state two
\* stops leave the engine as one stop does, two starts as one start does, and
\* either of them called in the state it establishes changes nothing.
C13_StartStopIdempotent ==
    /\ [](/\ \A t1, t2 \in StopTimes :
               Simulation_stop(Simulation_stop(sim, t1), t2) = Simulation_stop(sim, t1)
          /\ Simulation_start(Simulation_start(sim)) = Simulation_start(sim))
    /\ [][\A t \in Tasks :
             /\ (StopBodyStep(t) /\ ~sim.running) => sim' = sim
             /\ (StartBodyStep(t) /\ sim.running) => sim' = sim]_vars

\* a second stop() is in its body on an engine that a first stop() stopped
\* with a position held
C13_Witness ==
    /\ \E t \in Tasks : task[t].pc = "body" /\ task[t].op = "stop"
    /\ ~sim.running
    /\ sim.status = "completed"
    /\ sim.end_time # -1
    /\ sim.current_position # None

\* position, capital, trade log and trade counters of two results agree
SameBook(a, b) ==
    /\ a.current_position = b.current_position
    /\ a.current_capital = b.current_capital
    /\ a.trades = b.trades
    /\ a.total_pnl = b.total_pnl
    /\ a.total_trades = b.total_trades
    /\ a.winning_trades = b.winning_trades
    /\ a.losing_trades = b.losing_trades

\* C14: stop() stops the engine and stamps end_time and leaves the position
\* slot, the capital, the trade log and the counters as they were; start()
\* leaves them too, so a position held at stop() is held after the restart.
C14_StopKeepsPosition ==
    [][\A t \in Tasks :
          /\ StopBodyStep(t) =>
                 /\ SameBook(sim, sim')
                 /\ ~sim'.running
                 /\ sim.running => sim'.end_time = StopTime(fed)
          /\ StartBodyStep(t) => SameBook(sim, sim')]_vars

\* the engine runs again after a stop() and still holds the position it held
\* when it was stopped
C14_Witness ==
    /\ sim.running
    /\ sim.end_time # -1
    /\ sim.current_position # None
    /\ sim.current_position.entry_time < sim.end_time

\* C15: max_drawdown never decreases, in either engine.
C15_MaxDrawdownMonotone ==
    [][/\ bt'.max_drawdown >= bt.max_drawdown
       /\ sim'.max_drawdown >= sim.max_drawdown]_vars

\* in both engines a losing trade was followed by a winning one, so that the
\* current drawdown fell below the maximum
C15_Witness ==
    /\ Len(bt.trades) = 2 /\ bt.trades[1].pnl < 0 /\ bt.trades[2].pnl > 0
    /\ bt.max_drawdown > 0
    /\ Len(sim.trades) = 2 /\ sim.trades[1].pnl < 0 /\ sim.trades[2].pnl > 0
    /\ sim.max_drawdown > sim.current_drawdown

\* the maximum drawdown of a trade log measured from the running peak of
\* capital: trades n.. applied to `capital` under `peak`, `worst` so far
RECURSIVE DrawdownFrom(_, _, _, _, _)
DrawdownFrom(trades, n, capital, peak, worst) ==
    IF n > Len(trades) THEN worst
    ELSE LET c == capital + trades[n].pnl
             p == Max(peak, c)
             d == Drawdown(p, c)
         IN  DrawdownFrom(trades, n + 1, c, p, Max(worst, d))

\* C16: in both engines max_drawdown is the largest (peak - capital) / peak over
\* the trades recorded so far, peak being the highest capital reached up to
\* each trade, the initial capital included.
C16_DrawdownFromRunningPeak ==
    /\ bt.max_drawdown =
           DrawdownFrom(bt.trades, 1, bt.initial_capital, bt.initial_capital, 0)
    /\ sim.max_drawdown =
           DrawdownFrom(sim.trades, 1, sim.initial_capital, sim.initial_capital, 0)

ExitReasons ==
    {"stop_loss", "take_profit", "signal", "max_holding_period", "trailing_stop",
     "end_of_period"}

\* C17: every recorded Trade of either engine has one of the enumerated exit
\* reasons, never the empty string.
C17_ExitReasonEnumerated ==
    /\ \A n \in 1..Len(bt.trades) : bt.trades[n].exit_reason \in ExitReasons
    /\ \A n \in 1..Len(sim.trades) : sim.trades[n].exit_reason \in ExitReasons

\* each engine recorded a trade closed by the provider's exit signal, for
\* which the risk policy gave no reason, and the streaming engine one closed
\* by the risk policy for its age
C17_Witness ==
    /\ \E n \in 1..Len(bt.trades) : bt.trades[n].exit_reason = "signal"
    /\ \E n \in 1..Len(sim.trades) : sim.trades[n].exit_reason = "signal"
    /\ \E n \in 1..Len(sim.trades) : sim.trades[n].exit_reason = "max_holding_period"

-----------------------------------------------------------------------------
(* Claims about the consensus routines *)

\* the signals are Signals of the specification: direction long, short or none
SignalDomain ==
    \A i \in DOMAIN provider_signals : provider_signals[i] \in {"long", "short", "none"}

\* C18: PerformanceAnalyzer._validate_signals follows the three-tier rule.  One
\* signal: its direction.  Two: long iff both are long, short iff both are
\* short, otherwise none.  Three and more: long iff the longs exceed N/2, short
\* iff the shorts exceed N/2, otherwise none.
C18_ThreeTierRule ==
    (consensus.performance # "pending" /\ SignalDomain) =>
        LET N == Len(provider_signals)
            L == CountDirection(provider_signals, "long")
            S == CountDirection(provider_signals, "short")
            r == consensus.performance
        IN  /\ r \in {"long", "short", "none"}
            /\ N = 1 => r = provider_signals[1]
            /\ N = 2 => /\ r = "long" <=> L = 2
                        /\ r = "short" <=> S = 2
            /\ N >= 3 => /\ r = "long" <=> 2 * L > N
                         /\ r = "short" <=> 2 * S > N

\* three providers voted long, short, long and the routine returned long
C18_Witness ==
    /\ provider_signals = <<"long", "short", "long">>
    /\ consensus.performance = "long"

\* C19: when all N >= 1 providers return long, every consensus routine
\* returns long.
C19_UnanimousLong ==
    (\A i \in DOMAIN provider_signals : provider_signals[i] = "long") =>
        /\ consensus.backtester \in {"pending", "long"}
        /\ consensus.performance \in {"pending", "long"}
        /\ consensus.simulator \in {"pending", "long"}
        /\ consensus.executor \in {"pending", "long"}

\* a result that does not guess: no direction without a strict majority of the
\* N providers, never long with S >= L, never short with L >= S
NoGuess(r) ==
    LET N == Len(provider_signals)
        L == CountDirection(provider_signals, "long")
        S == CountDirection(provider_signals, "short")
    IN  r # "pending" =>
            /\ (2 * L <= N /\ 2 * S <= N) => r = "none"
            /\ S >= L => r # "long"
            /\ L >= S => r # "short"

\* C20: no consensus routine guesses, for signals with directions long, short
\* and none.
C20_NeverGuesses ==
    SignalDomain =>
        /\ NoGuess(consensus.backtester)
        /\ NoGuess(consensus.performance)
        /\ NoGuess(consensus.simulator)
        /\ NoGuess(consensus.executor)

\* what a bar does to an engine that is flat before it: `before` and `after`
\* are the engine around the bar, `signals` what the provider returned for it
EntryRule(before, after, signals) ==
    LET entry_price == signals.entry_price
        stop_loss == calculate_stop_loss(risk_name, entry_price, signals.direction,
                                         signals.volatility)
        take_profit == calculate_take_profit(risk_name, entry_price,
                                             signals.direction, stop_loss)
        size == calculate_position_size(risk_name, before.current_capital,
                                        entry_price, stop_loss)
        opens == signals.direction \in {"long", "short"} /\ size > 0
    IN  /\ (after.current_position # None) <=> opens
        /\ opens =>
             /\ after.current_position.type = signals.direction
             /\ after.current_position.entry_price = entry_price
             /\ after.current_position.stop_loss = stop_loss
             /\ after.current_position.take_profit = take_profit
             /\ after.current_position.size = size
        /\ after.trades = before.trades
        /\ after.current_capital = before.current_capital

ExitRule(before, after, signals, current_price, t) ==
    LET p == before.current_position
        pnl == IF p.type = "long"
               THEN (current_price - p.entry_price) * p.size
               ELSE (p.entry_price - current_price) * p.size
        verdict == should_close_position(risk_name, p.type, p.entry_price,
                                         current_price, p.stop_loss, p.take_profit,
                                         pnl, t - p.entry_time)
        closes == verdict.close \/ signals.exit_signal
    IN  /\ (after.current_position = None) <=> closes
        /\ ~closes => /\ after.current_position = p
                      /\ after.trades = before.trades
        /\ closes =>
             /\ Len(after.trades) = Len(before.trades) + 1
             /\ SubSeq(after.trades, 1, Len(before.trades)) = before.trades
             /\ LET trade == Last(after.trades)
                IN  /\ trade.exit_price = current_price
                    /\ trade.pnl = pnl
                    /\ trade.position_type = p.type
                    /\ trade.entry_price = p.entry_price
                    /\ trade.position_size = p.size
                    /\ trade.stop_loss = p.stop_loss
                    /\ trade.take_profit = p.take_profit
                    /\ trade.exit_reason = IF verdict.close THEN verdict.reason
                                           ELSE "signal"

\* C22: in both engines a bar that finds a position open closes it iff the
\* risk policy's should_close is true or the signal carries the exit flag; the
\* Trade has the bar's close as exit_price, the pnl of the position's direction,
\* the entry_price, size, stop_loss and take_profit stored at the opening, the
\* policy's reason when should_close is true and signal otherwise; the engine is
\* flat afterwards, and holds the same position when the bar does not close it.
C22_ExitTransition ==
    [][ /\ (bt'.i = bt.i + 1 /\ bt.current_position # None) =>
              ExitRule(bt, bt', calculate_signals(strategy, SubSeq(data, 1, bt'.i)),
                       data[bt'.i], bt'.i)
        /\ (callbacks' = callbacks + 1 /\ sim.current_position # None) =>
              \E lag \in Lags :
                  ExitRule(sim, sim', calculate_signals(strategy, <<data[fed']>>),
                           data[fed'], Arrival(fed', lag))
      ]_vars

C22_Witness ==
    /\ \E i \in DOMAIN bt.trades :
          bt.trades[i].position_type = "short" /\ bt.trades[i].pnl > 0
    /\ \E i \in DOMAIN sim.trades :
          sim.trades[i].position_type = "short" /\ sim.trades[i].pnl > 0
    /\ \E i \in DOMAIN sim.trades : sim.trades[i].exit_reason = "take_profit"

\* C26: position sizing never returns a negative size, whatever capital the
\* engine has reached: the size the replay would compute for its next entry,
\* long or short at any close of the series, is >= 0.
C26_SizeNeverNegative ==
    \A price \in ReplayPrices, position_type \in {"long", "short"} :
        calculate_position_size(risk_name, bt.current_capital, price,
            calculate_stop_loss(risk_name, price, position_type, 0)) >= 0

\* C28: BacktestEngine.run called with an empty series produces no Result.
C28_EmptySeriesFails ==
    data = <<>> => (bt.pc # "returned" /\ bt.result = None)

PolicyTickStep == held.pc = "open" /\ held'.holding = held.holding + 1

CrossedStop(h, price) ==
    IF h.position_type = "long" THEN price <= h.stop_loss ELSE price >= h.stop_loss

CrossedTarget(h, price) ==
    IF h.position_type = "long" THEN price >= h.take_profit ELSE price <= h.take_profit

HeldTooLong(h, holding_period) ==
    h.policy = "basic" /\ holding_period >= h.params.max_holding_minutes

\* the price is trailing_stop_pct or more behind `extreme`
Behind(h, price, extreme) ==
    /\ h.policy = "basic"
    /\ h.params.trailing_stop_pct # 0
    /\ IF h.position_type = "long"
       THEN price * 100 <= extreme * (100 - h.params.trailing_stop_pct)
       ELSE price * 100 >= extreme * (100 + h.params.trailing_stop_pct)

\* C23: should_close returns the first condition that holds, in the order
\* max_holding_period, stop_loss, take_profit, trailing_stop for basic and
\* stop_loss, take_profit for fixed and atr, and (False, '') exactly when none
\* holds; a long crosses its stop at price <= stop_loss and its target at
\* price >= take_profit, a short the other way round.
C23_FirstConditionInOrder ==
    [][ (PolicyTickStep /\ held.policy \in RiskManagers) =>
          LET price == held'.price
              extreme == IF held.position_type = "long"
                         THEN Max(held.entry_price, price)
                         ELSE Min(held.entry_price, price)
          IN  held'.verdict =
                IF HeldTooLong(held, held'.holding) THEN Close("max_holding_period")
                ELSE IF CrossedStop(held, price) THEN Close("stop_loss")
                ELSE IF CrossedTarget(held, price) THEN Close("take_profit")
                ELSE IF Behind(held, price, extreme) THEN Close("trailing_stop")
                ELSE NoClose
      ]_vars

C23_Witness ==
    /\ held # None
    /\ held.policy = "basic" /\ held.params.trailing_stop_pct # 0
    /\ held.position_type = "long"
    /\ held.verdict = Close("max_holding_period")
    /\ CrossedStop(held, held.price)

\* C24: the trailing adjustment of ATRRiskManagement and DynamicRiskManagement
\* never loosens a stop: over any price sequence the stop of a long never
\* decreases and the stop of a short never increases, and it changes only on a
\* bar whose price is on the favourable side of entry.
C24_StopNeverLoosens ==
    [][ (PolicyTickStep /\ held.policy \in {"atr", "dynamic"}) =>
          IF held.position_type = "long"
          THEN /\ held'.stop_loss >= held.stop_loss
               /\ held'.stop_loss # held.stop_loss => held'.price > held.entry_price
          ELSE /\ held'.stop_loss <= held.stop_loss
               /\ held'.stop_loss # held.stop_loss => held'.price < held.entry_price
      ]_vars

C24_Witness ==
    /\ held # None
    /\ held.policy = "dynamic" /\ held.position_type = "long"
    /\ held.stop_loss > held.entry_price
    /\ held.price < held.highest
    /\ held.holding = 3

\* C25: fixed, atr and basic put the stop of a long below the entry and its
\* target above, the stop of a short above the entry and its target below, and
\* the target at risk_reward_ratio times the stop distance from the entry.
C25_StopAndTargetSides ==
    [][ (held.pc = "ready" /\ held'.pc = "open" /\ held.policy \in RiskManagers) =>
          LET entry_price == held'.entry_price
              stop_loss == held'.stop_loss
              take_profit == held'.take_profit
          IN  /\ IF held'.position_type = "long"
                 THEN stop_loss < entry_price /\ entry_price < take_profit
                 ELSE take_profit < entry_price /\ entry_price < stop_loss
              /\ Abs(take_profit - entry_price) =
                    Abs(entry_price - stop_loss) * held.params.risk_reward_ratio
      ]_vars

C25_Witness ==
    /\ held # None
    /\ held.pc = "open" /\ held.holding = 0
    /\ held.policy = "atr" /\ held.position_type = "short"
    /\ held.volatility = 300

\* C27: no fixed, atr or basic policy object exists for a risk_per_trade
\* outside (0, 0.1]: get_risk_manager raised.
C27_RiskPerTradeEnforced ==
    (held # None /\ held.policy \in RiskManagers /\ held.pc \notin {"new", "rejected"}) =>
        (0 < held.params.risk_per_trade /\ held.params.risk_per_trade <= 10)

\* C30: with trailing_stop_pct configured, a bar whose price is
\* trailing_stop_pct or more below the highest price since entry (above the
\* lowest, for a short), and on which neither the holding period, the stop nor
\* the target closes the position, closes it with reason trailing_stop.
C30_TrailsFromExtreme ==
    (/\ held # None
     /\ held.policy = "basic"
     /\ held.pc \in {"open", "closed"}
     /\ held.holding >= 1
     /\ Behind(held, held.price,
               IF held.position_type = "long" THEN held.highest ELSE held.lowest)
     /\ ~HeldTooLong(held, held.holding)
     /\ ~CrossedStop(held, held.price)
     /\ ~CrossedTarget(held, held.price))
    => held.verdict = Close("trailing_stop")

-----------------------------------------------------------------------------
(* Claims about the status, failed updates and the counters *)

\* C32: result.status is running exactly when the engine's running flag is
\* set.
C32_StatusTracksRunning ==
    (sim.status = "running") <=> sim.running

\* C33: a process_update that raises, in the provider, the policy or the
\* on_update callback, leaves the position slot, the capital, the trade log and
\* the trade counters as they were before the call.
C33_FailedUpdateNoEffect ==
    [][(fed' = fed + 1 /\ sim.running /\ ~sim'.running) => SameBook(sim, sim')]_vars

\* the trades of a log with pnl > 0
Winners(trades) == {i \in DOMAIN trades : trades[i].pnl > 0}

\* C34: the counters agree with the trade log: total_trades = len(trades) =
\* winning_trades + losing_trades, winning_trades counts the trades with
\* pnl > 0, and total_pnl = current_capital - initial_capital, in the streaming
\* result after every update and in the Result BacktestEngine.run returns.
C34_CountersMatchLog ==
    /\ sim.total_trades = Len(sim.trades)
    /\ sim.total_trades = sim.winning_trades + sim.losing_trades
    /\ sim.winning_trades = Cardinality(Winners(sim.trades))
    /\ sim.total_pnl = sim.current_capital - sim.initial_capital
    /\ bt.pc = "returned" =>
          /\ bt.result.total_trades = Len(bt.result.trades)
          /\ bt.result.total_trades =
                bt.result.winning_trades + bt.result.losing_trades
          /\ bt.result.winning_trades = Cardinality(Winners(bt.result.trades))
          /\ bt.result.total_pnl =
                bt.result.final_capital - bt.result.initial_capital

C34_Witness ==
    /\ bt.pc = "returned"
    /\ \E i \in DOMAIN bt.result.trades : bt.result.trades[i].pnl = 0
    /\ \E i \in DOMAIN sim.trades : sim.trades[i].pnl = 0
    /\ \E i \in DOMAIN sim.trades : sim.trades[i].pnl > 0

C35_RerunSameResult ==
    (bt.pc = "returned" /\ twin.pc = "returned") =>
        /\ bt.result.trades = twin.result.trades
        /\ bt.result.final_capital = twin.result.final_capital
        /\ bt.result.max_drawdown = twin.result.max_drawdown


\* C31: a position opened by Backtester._open_position through
\* FixedStopLoss / DynamicRiskManagement.calculate_risk_params has its stop on
\* the adverse and its target on the favourable side of entry: short has
\* stop_loss > entry_price > take_profit, long has stop_loss < entry_price <
\* take_profit.
C31_StopAdverseTargetFavourable ==
    (backtester # None) =>
        \A k \in DOMAIN backtester.positions :
            LET position == backtester.positions[k]
            IN  IF position.type = "short"
                THEN position.stop_loss > position.entry_price
                     /\ position.entry_price > position.take_profit
                ELSE position.stop_loss < position.entry_price
                     /\ position.entry_price < position.take_profit

RECURSIVE SumNet(_)
SumNet(trades) ==
    IF trades = <<>> THEN 0
    ELSE trades[1].pnl - trades[1].commission + SumNet(Tail(trades))

\* C37: in the custom replay loop, whenever no position is open the balance is
\* initial_balance plus the sum over the recorded trades of (pnl - commission);
\* final_balance of the results is the last point of the equity curve.
C37_BalanceIsEquity ==
    (backtester # None) =>
        /\ (backtester.positions = <<>>) =>
              backtester.balance = backtester.initial_balance + SumNet(backtester.trades)
        /\ (backtester.pc = "returned" /\ backtester.results.trades # <<>>) =>
              LET curve == PerformanceAnalyzer_calculate_equity_curve(
                               backtester.results.initial_balance,
                               backtester.results.trades)
              IN  backtester.results.final_balance = curve[Len(curve)]


\* C39: in TradingSimulator, a long or short consensus for a symbol with no
\* current position and a balance that covers margin and commission completes
\* with exactly one position of the signalled direction, size and entry price,
\* the entry trade recorded once and the balance reduced by the entry
\* commission once; no entry trade follows another entry trade in the log
\* (a repeated consensus records nothing further).
C39_OneEntryOnePosition ==
    (account # None /\ account.last # None) =>
        /\ (account.last.consensus \in {"long", "short"}
            /\ account.last.held = 0 /\ account.last.covered) =>
              /\ account.last.raised = "none"
              /\ Len(account.positions) = 1
              /\ account.positions[1].direction = account.last.consensus
              /\ account.positions[1].position_size = account.last.size
              /\ account.positions[1].entry_price = account.last.close
              /\ Len(account.trades) = account.last.trades + 1
              /\ account.balance = account.last.balance - account.last.commission
        /\ \A k \in 1..(Len(account.trades) - 1) :
              ~(account.trades[k].direction \in {"long", "short"}
                /\ account.trades[k + 1].direction \in {"long", "short"})


\* C38: stop_simulation invoked concurrently for the same active simulation id
\* raises in neither caller, and the simulation ends up removed from
\* active_simulations.
C38_ConcurrentStopsComplete ==
    (service # None) =>
        \A c \in 1..NServiceCalls :
            LET call == service.call[c]
            IN  /\ call.was_active => call.pc # "raised"
                /\ (call.was_active /\ call.pc = "returned") =>
                      call.id \notin service.active_simulations

====
